---- MODULE Spec2Model ----
(***************************************************************************)
(* CampusPool front end (src/frontend/src/App.js).                         *)
(*                                                                         *)
(* Three specifications share this module:                                 *)
(*   SpecDerive  the display-only derivation functions (trust label, eco   *)
(*               impact, urgency window, TrustBadge style lookup) and the  *)
(*               router, applied to inputs drawn from bounded sets;        *)
(*   Spec        the client from page load: session, router, navigation,   *)
(*               in-flight API calls, toasts;                              *)
(*   SpecPages   what happens inside the pages of an open session: the     *)
(*               live ride screen, chat, the admin SOS page, the profile   *)
(*               modal, with their polling intervals.                      *)
(***************************************************************************)
EXTENDS Integers, Sequences, FiniteSets, TLC

VARIABLES
    derived,        \* the last evaluation of a derivation function
    booted,         \* AuthProvider's mount effect has run
    token,          \* localStorage 'token'
    user,           \* AuthProvider: user
    loading,        \* AuthProvider: loading
    currentPage,    \* AppContent: currentPage
    authMode,       \* AppContent: authMode
    isOnline,       \* useOnlineStatus: isOnline
    authPage,       \* the mounted LoginPage or SignupPage: its loading flag
    toast,          \* the last toast shown
    reqs,           \* API calls in flight
    live,           \* the LiveRideScreen instance
    chat,           \* the ChatModal instance
    sosPage,        \* the AdminSOSPage instance
    profileModal,   \* the ProfileModal instance
    upload,         \* VerificationSection: selectedImage, uploading
    timers,         \* active setInterval timers
    server,         \* what the server holds of the ride request: status, rated
    requestsPage,   \* the DriverRequestsPage instance
    driverDash,     \* the DriverDashboard instance: its rides
    postRide,       \* the PostRidePage instance: formData, loading
    rideCard,       \* a RideCard of the browse page
    reportsPage     \* the AdminReportsPage instance

\* the instances of the pages that keep to themselves
pageVars == <<requestsPage, driverDash, postRide, rideCard, reportsPage>>

appVars == <<booted, token, user, loading, currentPage, authMode, isOnline, authPage,
             toast, reqs, live, chat, sosPage, profileModal, upload, timers, server,
             pageVars>>

vars == <<derived, booted, token, user, loading, currentPage, authMode, isOnline,
          authPage, toast, reqs, live, chat, sosPage, profileModal, upload,
          timers, server, pageVars>>

(***************************************************************************)
(* Bounds of the model.                                                    *)
(***************************************************************************)
MaxRideCount == 15      \* ride counts 0..MaxRideCount
MaxDistanceKm == 100    \* distances 0..MaxDistanceKm
MaxDay == 1             \* ride dates are day 0..MaxDay
MaxNowSpan == 2         \* 'now' ranges over NowBase..NowBase+MaxNowSpan ticks

(***************************************************************************)
(* Section 4.1 of the specification: trust label and eco impact.  The      *)
(* client only renders these (TrustBadge, EcoImpactBanner); they are       *)
(* computed by the server, whose code is not part of src/.                 *)
(* Ratings are fixed-point tenths (4.5 is 45); CO2 and trees are           *)
(* thousandths (10.5 kg is 10500).                                         *)
(***************************************************************************)
NullRating == [isNull |-> TRUE, tenths |-> 0]

Rating(t) == [isNull |-> FALSE, tenths |-> t]

AvgRatings == {NullRating} \cup {Rating(t) : t \in 0..50}

TrustLabels == {"new_user", "low_rating", "regular", "trusted"}

\* the trusted threshold taken as strictly above 4.5
classifyTrustStrict(rideCount, avgRating) ==
    IF rideCount < 3 THEN "new_user"
    ELSE IF ~avgRating.isNull /\ avgRating.tenths < 30 THEN "low_rating"
    ELSE IF rideCount >= 10 /\ ~avgRating.isNull /\ avgRating.tenths > 45
         THEN "trusted"
    ELSE "regular"

\* a missing rating read as 0, and the rating looked at first
classifyTrustNullAsZero(rideCount, avgRating) ==
    IF avgRating.tenths < 30 THEN "low_rating"
    ELSE IF rideCount < 3 THEN "new_user"
    ELSE IF rideCount >= 10 /\ avgRating.tenths >= 45 THEN "trusted"
    ELSE "regular"

classifyTrust(rideCount, avgRating) ==
    IF rideCount < 3 THEN "new_user"
    ELSE IF ~avgRating.isNull /\ avgRating.tenths < 30 THEN "low_rating"
    ELSE IF rideCount >= 10 /\ ~avgRating.isNull /\ avgRating.tenths >= 45
         THEN "trusted"
    ELSE "regular"

\* the sharing factor 0.5 left out
computeEcoImpactSolo(distanceKm) ==
    LET co2 == (distanceKm * 1000 * 21) \div 100
    IN  [co2SavedMilliKg |-> co2, treesMilli |-> co2 \div 21]

computeEcoImpact(distanceKm) ==
    LET co2 == (distanceKm * 1000 * 21 * 5) \div (100 * 10)
    IN  [co2SavedMilliKg |-> co2, treesMilli |-> co2 \div 21]

(***************************************************************************)
(* RideCard.isUrgentEligible.  Time is counted in ticks, TicksPerMin ticks *)
(* to the minute: ride.date and ride.time have minute resolution, 'now'    *)
(* (new Date()) does not.  A Date is a record: an invalid Date has         *)
(* nan = TRUE and every comparison with NaN is false.                      *)
(***************************************************************************)
TicksPerMin == 2

MinutesPerDay == 24 * 60

UrgentWindowMinutes == 60

NowBase == MinutesPerDay * TicksPerMin - 1

Nows == NowBase..(NowBase + MaxNowSpan)

NaN == [nan |-> TRUE, ticks |-> 0]

Num(t) == [nan |-> FALSE, ticks |-> t]

BadField == [ok |-> FALSE, v |-> 0]

Field(x) == [ok |-> TRUE, v |-> x]

RideDates == {BadField} \cup {Field(d) : d \in 0..MaxDay}

RideTimes == {BadField} \cup {Field(m) : m \in 0..(MinutesPerDay - 1)}

NullRide == [isNull |-> TRUE, date |-> BadField, time |-> BadField]

Rides == {NullRide} \cup
         {[isNull |-> FALSE, date |-> d, time |-> t] : d \in RideDates, t \in RideTimes}

\* new Date(`${ride.date}T${ride.time}`): a missing or unparseable part
\* gives an invalid Date, it does not throw.
ParseRideDateTime(ride) ==
    IF ride.date.ok /\ ride.time.ok
    THEN Num((ride.date.v * MinutesPerDay + ride.time.v) * TicksPerMin)
    ELSE NaN

\* (rideDateTime - now) / (1000 * 60), kept in ticks
DiffMins(rideDateTime, now) ==
    IF rideDateTime.nan THEN NaN ELSE Num(rideDateTime.ticks - now)

\* a ride leaving right now counted as eligible
UrgentTryBodyInclusive(ride, now) ==
    IF ride.isNull
    THEN [threw |-> TRUE, value |-> FALSE]
    ELSE LET diffMins == DiffMins(ParseRideDateTime(ride), now)
         IN  [threw |-> FALSE,
              value |-> /\ ~diffMins.nan
                        /\ diffMins.ticks >= 0
                        /\ diffMins.ticks <= UrgentWindowMinutes * TicksPerMin]

\* the body of the try block: reading ride.date of a null ride throws
UrgentTryBody(ride, now) ==
    IF ride.isNull
    THEN [threw |-> TRUE, value |-> FALSE]
    ELSE LET diffMins == DiffMins(ParseRideDateTime(ride), now)
         IN  [threw |-> FALSE,
              value |-> /\ ~diffMins.nan
                        /\ diffMins.ticks > 0
                        /\ diffMins.ticks <= UrgentWindowMinutes * TicksPerMin]

\* try { ... } catch { return false; }
isUrgentEligible(ride, now) ==
    LET r == UrgentTryBody(ride, now)
    IN  IF r.threw THEN [threw |-> FALSE, value |-> FALSE] ELSE r

(***************************************************************************)
(* TrustBadge: styles[trustLevel.level] || styles.new.  The lookup is a    *)
(* property read on an object literal, so it also finds the members every  *)
(* object inherits from Object.prototype; those are truthy and have no     *)
(* icon, and rendering <Icon/> with an undefined type throws.              *)
(***************************************************************************)
StyleKeys == {"trusted", "regular", "new", "low"}

ObjectPrototypeKeys == {"constructor", "toString", "valueOf", "hasOwnProperty"}

LevelNames == StyleKeys \cup ObjectPrototypeKeys
              \cup {"undefined", "new_user", "low_rating", "vip", ""}

NoTrustLevel == [present |-> FALSE, level |-> "undefined"]

TrustLevelInputs == {NoTrustLevel} \cup {[present |-> TRUE, level |-> l] : l \in LevelNames}

StylesLookup(level) ==
    IF level \in StyleKeys THEN [found |-> TRUE, style |-> level, icon |-> TRUE]
    ELSE IF level \in ObjectPrototypeKeys
         THEN [found |-> TRUE, style |-> "inherited", icon |-> FALSE]
    ELSE [found |-> FALSE, style |-> "undefined", icon |-> FALSE]

TrustBadge(trustLevel) ==
    IF ~trustLevel.present THEN [out |-> "nothing", style |-> "none"]
    ELSE LET hit == StylesLookup(trustLevel.level)
             style == IF hit.found THEN hit ELSE StylesLookup("new")
         IN  IF style.icon THEN [out |-> "badge", style |-> style.style]
             ELSE [out |-> "throws", style |-> style.style]

(***************************************************************************)
(* The client state machine.                                               *)
(***************************************************************************)
MaxInflight == 1        \* API calls in flight at once

NoUser == [id |-> "null", role |-> "none", is_admin |-> FALSE,
           verification_status |-> "none"]

\* the rider has not been verified yet, the driver and the admin have been
Rider == [id |-> "u1", role |-> "rider", is_admin |-> FALSE,
          verification_status |-> "unverified"]

Driver == [id |-> "u2", role |-> "driver", is_admin |-> FALSE,
           verification_status |-> "verified"]

Admin == [id |-> "u3", role |-> "admin", is_admin |-> TRUE,
          verification_status |-> "verified"]

Users == {Rider, Driver, Admin}

NoToken == "null"

TokenOf(u) == "token-" \o u.id

\* a token left in local storage that the server no longer accepts
StaleToken == "token-stale"

RequestIds == {"r1"}

\* the ids of the cards that acceptedRequests.map renders
AcceptedIds == {"r1", "r2"}

LiveRidePage(id) == "live-ride:" \o id

LiveRidePages == {LiveRidePage(id) : id \in RequestIds}

AdminPages == {"verifications", "sos", "event-tags", "users", "reports", "audit-logs",
               "rides-monitoring", "analytics"}

Pages == AdminPages \cup LiveRidePages \cup
         {"dashboard", "admin", "profile", "post-ride", "requests", "stats", "history",
          "live-ride", "browse", "my-requests", "settings"}

\* currentPage.startsWith('live-ride:')
StartsWithLiveRide(page) == page \in LiveRidePages

\* currentPage.split(':')[1]
SplitRequestId(page) == CHOOSE id \in RequestIds : page = LiveRidePage(id)

NoView == [comp |-> "none", requestId |-> "", onBack |-> "", wrapped |-> FALSE]

Screen(c) == [comp |-> c, requestId |-> "", onBack |-> "", wrapped |-> FALSE]

\* <PageWrapper><C .../></PageWrapper>
Wrapped(c) == [comp |-> c, requestId |-> "", onBack |-> "", wrapped |-> TRUE]

WrappedLive(id, back) ==
    [comp |-> "LiveRideScreen", requestId |-> id, onBack |-> back, wrapped |-> TRUE]

AdminRoutes(page) ==
    CASE page = "verifications" -> Wrapped("AdminVerificationsPage")
      [] page = "sos" -> Wrapped("AdminSOSPage")
      [] page = "event-tags" -> Wrapped("AdminEventTagsPage")
      [] page = "users" -> Wrapped("AdminUsersPage")
      [] page = "reports" -> Wrapped("AdminReportsPage")
      [] page = "audit-logs" -> Wrapped("AdminAuditLogsPage")
      [] page = "rides-monitoring" -> Wrapped("AdminRidesMonitoringPage")
      [] page = "analytics" -> Wrapped("AdminAnalyticsPage")
      [] page = "profile" -> Wrapped("ProfilePage")
      [] OTHER -> Wrapped("AdminDashboard")

\* case 'live-ride' reads the id from localStorage 'liveRideId', which
\* nothing in the file ever sets.
DriverRoutes(page) ==
    CASE page = "post-ride" -> Screen("PostRidePage")
      [] page = "requests" -> Wrapped("DriverRequestsPage")
      [] page = "stats" -> Wrapped("StatsPage")
      [] page = "history" -> Wrapped("RideHistoryPage")
      [] page = "live-ride" -> WrappedLive("null", "requests")
      [] page = "profile" -> Wrapped("ProfilePage")
      [] OTHER -> IF StartsWithLiveRide(page)
                  THEN WrappedLive(SplitRequestId(page), "requests")
                  ELSE Wrapped("DriverDashboard")

\* the SOS page routed for riders as well
RiderRoutesWithSos(page) ==
    CASE page = "browse" -> Wrapped("BrowseRidesPage")
      [] page = "my-requests" -> Wrapped("MyRequestsPage")
      [] page = "sos" -> Wrapped("AdminSOSPage")
      [] page = "stats" -> Wrapped("StatsPage")
      [] page = "history" -> Wrapped("RideHistoryPage")
      [] page = "profile" -> Wrapped("ProfilePage")
      [] OTHER -> IF StartsWithLiveRide(page)
                  THEN WrappedLive(SplitRequestId(page), "my-requests")
                  ELSE Wrapped("RiderDashboard")

RiderRoutes(page) ==
    CASE page = "browse" -> Wrapped("BrowseRidesPage")
      [] page = "my-requests" -> Wrapped("MyRequestsPage")
      [] page = "stats" -> Wrapped("StatsPage")
      [] page = "history" -> Wrapped("RideHistoryPage")
      [] page = "profile" -> Wrapped("ProfilePage")
      [] OTHER -> IF StartsWithLiveRide(page)
                  THEN WrappedLive(SplitRequestId(page), "my-requests")
                  ELSE Wrapped("RiderDashboard")

\* what AppContent returns
AppContent(u, ld, mode, page) ==
    IF ld THEN Screen("LoadingScreen")
    ELSE IF u = NoUser
         THEN (IF mode = "login" THEN Screen("LoginPage") ELSE Screen("SignupPage"))
    ELSE IF u.is_admin THEN AdminRoutes(page)
    ELSE IF u.role = "driver" THEN DriverRoutes(page)
    ELSE RiderRoutes(page)

(***************************************************************************)
(* api(): the outcome of a call and the message of the Error it throws.    *)
(* A rejected fetch (no response at all) throws the browser's own error.   *)
(***************************************************************************)
NoDetail == ""

ChatLocked == "Chat is only available after the request is accepted"

Rejected == "Invalid request"

Details == {Rejected, ChatLocked}

Ok == [kind |-> "ok", detail |-> NoDetail]

HttpError(d) == [kind |-> "http", detail |-> d]

NetworkError == [kind |-> "network", detail |-> NoDetail]

Failures == {HttpError(d) : d \in Details \cup {NoDetail}} \cup {NetworkError}

Outcomes == {Ok} \cup Failures

\* the chat endpoints are the ones that answer with ChatLocked
OutcomesOf(h) ==
    IF h \in {"loadMessages", "handleSend"} THEN Outcomes
    ELSE Outcomes \ {HttpError(ChatLocked)}

\* throw new Error(data.detail || 'Something went wrong')
api(outcome) ==
    IF outcome.kind = "ok" THEN [threw |-> FALSE, message |-> ""]
    ELSE IF outcome.kind = "http"
         THEN [threw |-> TRUE,
               message |-> IF outcome.detail # NoDetail THEN outcome.detail
                           ELSE "Something went wrong"]
    ELSE [threw |-> TRUE, message |-> "Failed to fetch"]

\* 'only available after' is part of the message
IncludesOnlyAvailableAfter(message) == message = ChatLocked

NoToast == [kind |-> "none", text |-> ""]

ToastError(text) == [kind |-> "error", text |-> text]

ToastSuccess(text) == [kind |-> "success", text |-> text]

ToastInfo(text) == [kind |-> "info", text |-> text]

(***************************************************************************)
(* Calls in flight.  alive is FALSE once the component instance that made  *)
(* the call is unmounted: its setState calls then do nothing, while what   *)
(* it calls outside itself (toast, onBack, the AuthProvider) still acts.   *)
(* host is FALSE once the page instance around it is unmounted as well.    *)
(***************************************************************************)
\* tok is the Authorization header of a call to /api/auth/me, the one
\* endpoint whose answer the model derives from it, and "" for the others;
\* body is the number the call's JSON body carries (the rating), 0 if none
AuthHeader(h, tok) == IF h \in {"startupMe", "refreshUser"} THEN tok ELSE ""

Req(h, owner, arg, tok) ==
    [h |-> h, owner |-> owner, alive |-> TRUE, host |-> TRUE, arg |-> arg,
     tok |-> AuthHeader(h, tok), body |-> 0]

\* a call made by a closure of an instance that may be gone already
ReqOf(r, h, arg, tok) ==
    [h |-> h, owner |-> r.owner, alive |-> r.alive, host |-> r.host, arg |-> arg,
     tok |-> AuthHeader(h, tok), body |-> 0]

PageOwners == {"LoginPage", "SignupPage", "LiveRideScreen", "ChatModal", "AdminSOSPage",
               "ProfileModal", "VerificationSection", "RatingModal"}

Orphan(rq, owners) ==
    {IF r.owner \in owners THEN [r EXCEPT !.alive = FALSE, !.host = FALSE] ELSE r :
        r \in rq}

\* a modal is closed while the page that hosts it stays
OrphanModal(rq, owner) ==
    {IF r.owner = owner THEN [r EXCEPT !.alive = FALSE] ELSE r : r \in rq}

\* setInterval returns an id no active timer has
NewTimerId(tm) == CHOOSE n \in 1..(Cardinality(tm) + 1) : \A t \in tm : t.id # n

\* arg is what the callback's closure holds: onBack, requestId or filter
Timer(id, owner, arg) == [id |-> id, owner |-> owner, arg |-> arg]

\* clearInterval(id)
clearInterval(tm, id) == {t \in tm : t.id # id}

(***************************************************************************)
(* Component instances.                                                    *)
(***************************************************************************)
MaxData == 1            \* distinct payloads a list endpoint may return: 1..MaxData

NoRideData == [loaded |-> FALSE, status |-> "none", has_active_sos |-> FALSE]

RideStatuses == {"ongoing", "completed"}

RideDataValues ==
    {[loaded |-> TRUE, status |-> st, has_active_sos |-> b] :
        st \in RideStatuses, b \in BOOLEAN}

\* useState initial values of LiveRideScreen
NoLive ==
    [mounted |-> FALSE, requestId |-> "", onBack |-> "", interval |-> 0,
     rideData |-> NoRideData, loading |-> TRUE, sosTriggered |-> FALSE,
     showSosConfirm |-> FALSE, sosLoading |-> FALSE, reachingLoading |-> FALSE,
     showChat |-> FALSE, showRatingModal |-> FALSE, canRate |-> FALSE,
     ratingInfo |-> FALSE, rating |-> 0, ratingLoading |-> FALSE]

\* useState initial values of ChatModal; messages is 0 for [] and the
\* payload number otherwise
NoChat ==
    [mounted |-> FALSE, host |-> "none", requestId |-> "", messages |-> 0,
     newMessage |-> "", loading |-> TRUE, sending |-> FALSE, chatEnabled |-> TRUE,
     pollIntervalRef |-> 0]

Filters == {"all", "active"}

\* useState initial values of AdminSOSPage; sosEvents is "none" for [] and
\* otherwise the filter the displayed list was requested with
NoSosPage ==
    [mounted |-> FALSE, interval |-> 0, filter |-> "all", sosEvents |-> "none",
     loading |-> TRUE, actionLoading |-> FALSE, selectedSOS |-> FALSE,
     status |-> "none", actionType |-> "none"]

NoProfileModal == [open |-> FALSE, loading |-> TRUE, profile |-> FALSE]

\* useState initial values of DriverRequestsPage.  pendingRequests is the set
\* of listed ids; acceptedRequests is the status of the listed request, or
\* "none" for []; pinInput[id] is "" for a missing entry as for ''
NoRequestsPage ==
    [loading |-> TRUE, pendingRequests |-> {}, acceptedRequests |-> "none",
     activeTab |-> "pending", pinInput |-> [id \in AcceptedIds |-> ""],
     startingRide |-> "null"]

\* DriverDashboard: rides is the status of the listed ride, "none" for []
NoDriverDash == [loading |-> TRUE, rides |-> "none"]

\* useState initial values of PostRidePage; a latitude is "null" until a
\* location is picked on the map; picker is the MapLocationPicker whose
\* isOpen state is set (showSourcePicker, showDestPicker)
NoPostRide ==
    [source |-> "", destination |-> "", source_lat |-> "null",
     destination_lat |-> "null", is_recurring |-> FALSE, recurrence_pattern |-> "",
     loading |-> FALSE, picker |-> "none"]

\* BrowseRidesPage and the RideCard of the ride it lists: hasRequested comes
\* from userRequests, urgentEligible is what isUrgentEligible() returns
NoRideCard ==
    [loading |-> TRUE, listed |-> FALSE, hasRequested |-> FALSE,
     urgentEligible |-> FALSE, showUrgentModal |-> FALSE]

\* useState initial values of AdminReportsPage; reports is the status of the
\* listed report, "none" for []
NoReportsPage ==
    [loading |-> TRUE, reports |-> "none", selectedReport |-> FALSE,
     actionLoading |-> FALSE]

\* no page of pageVars is mounted
PagesIdle ==
    /\ requestsPage = NoRequestsPage
    /\ driverDash = NoDriverDash
    /\ postRide = NoPostRide
    /\ rideCard = NoRideCard
    /\ reportsPage = NoReportsPage

\* the one ride request of the model on the server: its status, and whether
\* the signed-in user has rated it
RequestStatuses == {"requested", "accepted", "ongoing", "completed", "rejected"}

ServerOf(st) == [status |-> st, rated |-> FALSE, sos |-> FALSE]

\* GET /api/ratings/can-rate is answered from what the server holds when it
\* handles the call, which is at some time between the sending and the
\* answer's arrival: a call sent before the rating was stored may still be
\* answered can_rate = true
RatedStamp == IF server.rated THEN "rated" ELSE "unrated"

NoUpload == [selectedImage |-> FALSE, uploading |-> FALSE]

NoAuthPage == [loading |-> FALSE]

\* the effect cleanups: return () => clearInterval(interval), and ChatModal's
\* if (pollIntervalRef.current) clearInterval(pollIntervalRef.current)
LiveCleanup(tm, lv) == IF lv.mounted THEN clearInterval(tm, lv.interval) ELSE tm

\* an effect without a cleanup
ChatCleanupMissing(tm, ch) == tm

ChatCleanup(tm, ch) ==
    IF ch.mounted /\ ch.pollIntervalRef # 0 THEN clearInterval(tm, ch.pollIntervalRef)
    ELSE tm

SosCleanup(tm, sp) == IF sp.mounted THEN clearInterval(tm, sp.interval) ELSE tm

\* LiveRideScreen's effect: loadRideData(); setInterval(loadRideData, 10000)
LiveMount(view, rq, tm, tok) ==
    LET id == NewTimerId(tm)
    IN  [live |-> [NoLive EXCEPT !.mounted = TRUE, !.requestId = view.requestId,
                                 !.onBack = view.onBack, !.interval = id],
         reqs |-> rq \cup {Req("loadRideData", "LiveRideScreen", view.onBack, tok)},
         timers |-> tm \cup {Timer(id, "LiveRideScreen", view.onBack)}]

\* AdminSOSPage's effect: loadSOS(); setInterval(loadSOS, 15000)
SosEffect(sp, rq, tm, tok) ==
    LET id == NewTimerId(tm)
    IN  [sosPage |-> [sp EXCEPT !.mounted = TRUE, !.interval = id],
         reqs |-> rq \cup {Req("loadSOS", "AdminSOSPage", sp.filter, tok)},
         timers |-> tm \cup {Timer(id, "AdminSOSPage", sp.filter)}]

\* ChatModal's effect: loadMessages(); pollIntervalRef.current = setInterval(...)
ChatMount(host, requestId, rq, tm, tok) ==
    LET id == NewTimerId(tm)
    IN  [chat |-> [NoChat EXCEPT !.mounted = TRUE, !.host = host,
                                 !.requestId = requestId, !.pollIntervalRef = id],
         reqs |-> rq \cup {Req("loadMessages", "ChatModal", requestId, tok)},
         timers |-> tm \cup {Timer(id, "ChatModal", requestId)}]

(***************************************************************************)
(* A render of AppContent.  PageWrapper is defined inside AppContent, so   *)
(* it is a new component type on every render: whatever is inside it is    *)
(* unmounted and mounted afresh whenever AppContent renders again.  The    *)
(* pages outside PageWrapper (login, signup, post-ride) keep their         *)
(* instance while the same one is returned.                                *)
(***************************************************************************)
Persists(old, new) == ~old.wrapped /\ ~new.wrapped /\ old.comp = new.comp

Rerender(old, new, rq, tm, tok) ==
    IF Persists(old, new)
    THEN [live |-> live, chat |-> chat, sosPage |-> sosPage,
          profileModal |-> profileModal, upload |-> upload, authPage |-> authPage,
          reqs |-> rq, timers |-> tm]
    ELSE LET rq1 == Orphan(rq, PageOwners)
             tm1 == SosCleanup(ChatCleanup(LiveCleanup(tm, live), chat), sosPage)
             base == [live |-> NoLive, chat |-> NoChat, sosPage |-> NoSosPage,
                      profileModal |-> NoProfileModal, upload |-> NoUpload,
                      authPage |-> NoAuthPage, reqs |-> rq1, timers |-> tm1]
         IN  IF new.comp = "LiveRideScreen"
             THEN LET m == LiveMount(new, rq1, tm1, tok)
                  IN  [base EXCEPT !.live = m.live, !.reqs = m.reqs, !.timers = m.timers]
             ELSE IF new.comp = "AdminSOSPage"
             THEN LET m == SosEffect(NoSosPage, rq1, tm1, tok)
                  IN  [base EXCEPT !.sosPage = m.sosPage, !.reqs = m.reqs,
                                   !.timers = m.timers]
             ELSE base

\* the state after AppContent has rendered with the new values; rq and tm
\* are the calls and timers the handler leaves, tok the stored token
Render(u, ld, mode, page, rq, tm, tok) ==
    LET r == Rerender(AppContent(user, loading, authMode, currentPage),
                      AppContent(u, ld, mode, page), rq, tm, tok)
    IN  /\ Cardinality(r.reqs) <= MaxInflight
        /\ live' = r.live
        /\ chat' = r.chat
        /\ sosPage' = r.sosPage
        /\ profileModal' = r.profileModal
        /\ upload' = r.upload
        /\ authPage' = r.authPage
        /\ reqs' = r.reqs
        /\ timers' = r.timers

NoRender == UNCHANGED <<live, chat, sosPage, profileModal, upload, authPage, timers>>

View == AppContent(user, loading, authMode, currentPage)

(***************************************************************************)
(* Initial state: the page has just been loaded; local storage may hold a  *)
(* token from an earlier visit.                                            *)
(***************************************************************************)
StoredTokens == {NoToken, StaleToken} \cup {TokenOf(u) : u \in Users}

UserOfToken(tok) == CHOOSE u \in Users : TokenOf(u) = tok

UserById(id) == CHOOSE u \in Users : u.id = id

NoDerived == [op |-> "none"]

AppInit ==
    /\ booted = FALSE
    /\ token \in StoredTokens
    /\ user = NoUser
    /\ loading = TRUE
    /\ currentPage = "dashboard"
    /\ authMode = "login"
    /\ isOnline \in BOOLEAN
    /\ authPage = NoAuthPage
    /\ toast = NoToast
    /\ reqs = {}
    /\ live = NoLive
    /\ chat = NoChat
    /\ sosPage = NoSosPage
    /\ profileModal = NoProfileModal
    /\ upload = NoUpload
    /\ timers = {}
    /\ server \in {ServerOf(st) : st \in {"ongoing", "completed"}}
    /\ PagesIdle

Init == derived = NoDerived /\ AppInit

(***************************************************************************)
(* AuthProvider.                                                           *)
(***************************************************************************)
\* the mount effect: api('/api/auth/me') when a token is stored
AuthProviderMount ==
    /\ ~booted
    /\ booted' = TRUE
    /\ IF token # NoToken
       THEN /\ reqs' = reqs \cup {Req("startupMe", "AuthProvider", "", token)}
            /\ UNCHANGED loading
            /\ NoRender
       ELSE /\ loading' = FALSE
            /\ Render(user, FALSE, authMode, currentPage, reqs, timers, token)
    /\ UNCHANGED <<derived, server, pageVars, token, user, currentPage, authMode,
                   isOnline, toast>>

\* the server accepts a token only if it is some user's
TokenAccepted(tok, o) == o = Ok => tok \in {TokenOf(u) : u \in Users}

\* a chain whose setLoading(false) is in .then, not in .finally
StartupMeSettleNoFinally(r, o) ==
    /\ r \in reqs /\ r.h = "startupMe" /\ o \in OutcomesOf("startupMe")
    /\ TokenAccepted(r.tok, o)
    /\ loading' = api(o).threw
    /\ IF ~api(o).threw
       THEN /\ user' = UserOfToken(r.tok)
            /\ UNCHANGED token
       ELSE /\ token' = NoToken
            /\ UNCHANGED user
    /\ Render(user', loading', authMode, currentPage, reqs \ {r}, timers, token')
    /\ UNCHANGED <<derived, server, pageVars, booted, currentPage, authMode, isOnline,
                   toast>>

\* .then(setUser).catch(removeItem).finally(setLoading(false))
StartupMeSettle(r, o) ==
    /\ r \in reqs /\ r.h = "startupMe" /\ o \in OutcomesOf("startupMe")
    /\ TokenAccepted(r.tok, o)
    /\ loading' = FALSE
    /\ IF ~api(o).threw
       THEN /\ user' = UserOfToken(r.tok)
            /\ UNCHANGED token
       ELSE /\ token' = NoToken
            /\ UNCHANGED user
    /\ Render(user', FALSE, authMode, currentPage, reqs \ {r}, timers, token')
    /\ UNCHANGED <<derived, server, pageVars, booted, currentPage, authMode, isOnline,
                   toast>>

\* the user set before the answer is known
loginSettledOptimistic(r, o) ==
    IF ~api(o).threw
    THEN [token |-> TokenOf(UserById(r.arg)), user |-> UserById(r.arg)]
    ELSE [token |-> token, user |-> UserById(r.arg)]

\* the body of login and of signup once api() has settled
loginSettled(r, o) ==
    IF ~api(o).threw
    THEN [token |-> TokenOf(UserById(r.arg)), user |-> UserById(r.arg)]
    ELSE [token |-> token, user |-> user]

logoutResult == [token |-> NoToken, user |-> NoUser]

\* LoginPage.handleSubmit / SignupPage.handleSubmit up to the await
AuthSubmit(page, h, u) ==
    /\ View.comp = page
    /\ ~authPage.loading
    /\ Cardinality(reqs) < MaxInflight
    /\ authPage' = [authPage EXCEPT !.loading = TRUE]
    /\ reqs' = reqs \cup {Req(h, page, u.id, token)}
    /\ UNCHANGED <<derived, server, pageVars, booted, token, user, loading, currentPage,
                   authMode, isOnline, toast, live, chat, sosPage, profileModal, upload,
                   timers>>

LoginSubmit(u) == AuthSubmit("LoginPage", "login", u)

SignupSubmit(u) == AuthSubmit("SignupPage", "signup", u)

\* the rest of handleSubmit: toast.success or toast.error(error.message),
\* finally setLoading(false)
AuthSettle(h, text, r, o) ==
    /\ r \in reqs /\ r.h = h /\ o \in OutcomesOf(h)
    /\ token' = loginSettled(r, o).token
    /\ user' = loginSettled(r, o).user
    /\ toast' = IF api(o).threw THEN ToastError(api(o).message) ELSE ToastSuccess(text)
    /\ IF api(o).threw
       THEN /\ authPage' = IF r.alive THEN [authPage EXCEPT !.loading = FALSE] ELSE authPage
            /\ reqs' = reqs \ {r}
            /\ UNCHANGED <<live, chat, sosPage, profileModal, upload, timers>>
       ELSE Render(user', loading, authMode, currentPage, reqs \ {r}, timers, token')
    /\ UNCHANGED <<derived, server, pageVars, booted, loading, currentPage, authMode,
                   isOnline>>

LoginSettle(r, o) == AuthSettle("login", "Welcome back!", r, o)

SignupSettle(r, o) == AuthSettle("signup", "Account created successfully!", r, o)

\* onSwitch
SwitchAuthMode ==
    /\ View.comp \in {"LoginPage", "SignupPage"}
    /\ authMode' = IF authMode = "login" THEN "signup" ELSE "login"
    /\ Render(user, loading, authMode', currentPage, reqs, timers, token)
    /\ UNCHANGED <<derived, server, pageVars, booted, token, user, loading, currentPage,
                   isOnline, toast>>

LiveShown == live.mounted /\ ~live.loading /\ live.rideData.loaded

\* the modals are fixed full-screen layers over the screen's own buttons
LiveOverlay ==
    live.showSosConfirm \/ live.showChat \/ (live.showRatingModal /\ live.ratingInfo)

(***************************************************************************)
(* Navigation.                                                             *)
(***************************************************************************)
navItems(u) ==
    IF u.is_admin
    THEN {"admin", "users", "rides-monitoring", "reports", "sos", "verifications",
          "analytics", "audit-logs", "profile"}
    ELSE IF u.role = "driver"
    THEN {"dashboard", "post-ride", "requests", "stats", "history", "profile"}
    ELSE {"dashboard", "browse", "my-requests", "stats", "history", "profile"}

\* the pages that render <Navigation/>: every page but the live ride screen
HasNavigation(view) ==
    view.comp \notin {"LoadingScreen", "LoginPage", "SignupPage", "LiveRideScreen"}

\* the setCurrentPage calls of the page's own buttons
PageButtons(comp) ==
    CASE comp = "MyRequestsPage" -> LiveRidePages \cup {"browse"}
      [] comp = "DriverRequestsPage" -> LiveRidePages
      [] comp = "DriverDashboard" -> {"requests", "post-ride", "profile"}
      [] comp = "RiderDashboard" -> {"my-requests", "browse", "profile"}
      [] comp = "BrowseRidesPage" -> {"profile"}
      [] comp = "StatsPage" -> {"profile"}
      [] comp = "PostRidePage" -> {"profile"}
      [] comp = "AdminDashboard" -> {"sos", "reports", "verifications", "users",
                                     "rides-monitoring", "audit-logs", "analytics"}
      [] comp = "AdminEventTagsPage" -> {"admin"}
      [] OTHER -> {}

\* the live ride screen offers Back once it has left its loading state
NavTargets(view, u) ==
    IF view.comp = "LiveRideScreen"
    THEN (IF live.loading \/ LiveOverlay THEN {} ELSE {view.onBack})
    ELSE IF HasNavigation(view) THEN navItems(u) \cup {"dashboard"} \cup PageButtons(view.comp)
    ELSE {}

\* setCurrentPage(page); setting the value it already has renders nothing
Navigate(page) ==
    /\ page \in NavTargets(View, user)
    /\ page # currentPage
    /\ currentPage' = page
    /\ Render(user, loading, authMode, page, reqs, timers, token)
    /\ UNCHANGED <<derived, server, pageVars, booted, token, user, loading, authMode,
                   isOnline, toast>>

\* AuthProvider.logout, from the Navigation bar
Logout ==
    /\ HasNavigation(View)
    /\ token' = logoutResult.token
    /\ user' = logoutResult.user
    /\ Render(user', loading, authMode, currentPage, reqs, timers, token')
    /\ UNCHANGED <<derived, server, pageVars, booted, loading, currentPage, authMode,
                   isOnline, toast>>

\* useOnlineStatus: the window's online and offline events
handleOnline ==
    /\ booted /\ ~isOnline
    /\ isOnline' = TRUE
    /\ toast' = ToastSuccess("Back online! Map features available.")
    /\ Render(user, loading, authMode, currentPage, reqs, timers, token)
    /\ UNCHANGED <<derived, server, pageVars, booted, token, user, loading, currentPage,
                   authMode>>

handleOffline ==
    /\ booted /\ isOnline
    /\ isOnline' = FALSE
    /\ toast' = ToastInfo("You are offline. Manual location entry enabled.")
    /\ Render(user, loading, authMode, currentPage, reqs, timers, token)
    /\ UNCHANGED <<derived, server, pageVars, booted, token, user, loading, currentPage,
                   authMode>>

(***************************************************************************)
(* LiveRideScreen.                                                         *)
(***************************************************************************)
\* the one ride request of the model is u1's request for a ride of u2
RideResponse(rd) == rd \in RideDataValues /\ rd.status = server.status

\* a call that was in flight while the server stored the SOS may have been
\* handled before it; body 1 marks such a call
Overtaken(rq) ==
    {IF r.h = "loadRideData" THEN [r EXCEPT !.body = 1] ELSE r : r \in rq}

\* has_active_sos of a GET /live answer: what the server holds, or, for an
\* overtaken call, what it held before the SOS
SosResponse(r, rd) ==
    \/ rd.has_active_sos = server.sos
    \/ r.body = 1 /\ ~rd.has_active_sos

\* a check that takes either party of the ride for its rider
isRiderOrDriver(u) == u.id \in {Rider.id, Driver.id}

\* const isRider = rideData?.rider_id === user?.id
isRider(u) == u.id = Rider.id

isOngoing(lv) == lv.rideData.loaded /\ lv.rideData.status = "ongoing"

\* the instance that set the interval is still mounted
TimerAlive(t) ==
    CASE t.owner = "LiveRideScreen" -> live.mounted /\ live.interval = t.id
      [] t.owner = "ChatModal" -> chat.mounted /\ chat.pollIntervalRef = t.id
      [] t.owner = "AdminSOSPage" -> sosPage.mounted /\ sosPage.interval = t.id
      [] OTHER -> FALSE

\* a tick of an interval: the callback runs and makes its call
PollTick(t, h) ==
    /\ t \in timers
    /\ Cardinality(reqs) < MaxInflight
    /\ reqs' = reqs \cup {[h |-> h, owner |-> t.owner, alive |-> TimerAlive(t),
                            host |-> TimerAlive(t), arg |-> t.arg,
                            tok |-> AuthHeader(h, token), body |-> 0]}
    /\ UNCHANGED <<derived, server, pageVars, booted, token, user, loading, currentPage,
                   authMode, isOnline, authPage, toast, live, chat, sosPage,
                   profileModal, upload, timers>>

LiveRidePoll(t) == t.owner = "LiveRideScreen" /\ PollTick(t, "loadRideData")

\* loadRideData once GET /live has settled.  A completed ride makes it await
\* can-rate inside the same try, so finally runs after that call.
loadRideData(lv, r, o, rd) ==
    IF api(o).threw
    THEN [live |-> IF r.alive THEN [lv EXCEPT !.loading = FALSE] ELSE lv,
          toast |-> ToastError("Failed to load ride details"),
          page |-> r.arg,
          more |-> {}]
    ELSE [live |-> IF r.alive
                   THEN [lv EXCEPT !.rideData = rd,
                                   !.sosTriggered = rd.has_active_sos,
                                   !.loading = IF rd.status = "completed" THEN @ ELSE FALSE]
                   ELSE lv,
          toast |-> toast,
          page |-> currentPage,
          more |-> IF rd.status = "completed"
                   THEN {ReqOf(r, "canRate", RatedStamp, token)} ELSE {}]

LoadRideDataSettle(r, o, rd) ==
    /\ r \in reqs /\ r.h = "loadRideData" /\ o \in OutcomesOf("loadRideData")
    /\ o = Ok => RideResponse(rd) /\ SosResponse(r, rd)
    /\ o # Ok => rd = CHOOSE x \in RideDataValues : TRUE
    /\ LET res == loadRideData(live, r, o, rd)
           rq == (reqs \ {r}) \cup res.more
       IN  /\ toast' = res.toast
           /\ currentPage' = res.page
           /\ IF res.page # currentPage
              THEN Render(user, loading, authMode, res.page, rq, timers, token)
              ELSE /\ live' = res.live
                   /\ reqs' = rq
                   /\ UNCHANGED <<chat, sosPage, profileModal, upload, authPage, timers>>
    /\ UNCHANGED <<derived, server, pageVars, booted, token, user, loading, authMode,
                   isOnline>>

\* the inner try of loadRideData: GET /api/ratings/can-rate, then finally
CanRateSettle(r, o, can) ==
    /\ r \in reqs /\ r.h = "canRate" /\ o \in OutcomesOf("canRate")
    /\ o # Ok => ~can
    /\ can => r.arg = "unrated"
    /\ reqs' = reqs \ {r}
    /\ live' = IF ~r.alive THEN live
               ELSE IF api(o).threw THEN [live EXCEPT !.loading = FALSE]
               ELSE [live EXCEPT !.canRate = can,
                                 !.ratingInfo = IF can THEN TRUE ELSE @,
                                 !.loading = FALSE]
    /\ UNCHANGED <<derived, server, pageVars, booted, token, user, loading, currentPage,
                   authMode, isOnline, authPage, toast, chat, sosPage, profileModal,
                   upload, timers>>

LiveUnchanged ==
    UNCHANGED <<derived, server, pageVars, booted, token, user, loading, currentPage,
                authMode, isOnline, authPage, toast, chat, sosPage, profileModal,
                upload, timers>>

\* the Emergency SOS button and the confirmation modal's Cancel
SetShowSosConfirm(b) ==
    /\ LiveShown
    /\ IF b THEN isOngoing(live) /\ ~live.sosTriggered /\ ~LiveOverlay
       ELSE live.showSosConfirm
    /\ live' = [live EXCEPT !.showSosConfirm = b]
    /\ UNCHANGED reqs
    /\ LiveUnchanged

\* the Rate button of a completed ride
OpenRatingModal ==
    /\ LiveShown
    /\ live.rideData.status = "completed" /\ live.canRate /\ ~LiveOverlay
    /\ live' = [live EXCEPT !.showRatingModal = TRUE]
    /\ UNCHANGED reqs
    /\ LiveUnchanged

\* the rate action is offered: the Rate button of the completed block
RateOffered ==
    LiveShown /\ live.rideData.status = "completed" /\ live.canRate

\* a modal rendered on showRatingModal alone
RatingModalShownUnanswered == LiveShown /\ live.showRatingModal

\* {showRatingModal && ratingInfo && <RatingModal/>}
RatingModalShown == LiveShown /\ live.showRatingModal /\ live.ratingInfo

\* RatingModal's onClose, from the backdrop and from Cancel (disabled while
\* loading); the modal is unmounted and its state is gone
CloseRatingModal ==
    /\ RatingModalShown
    /\ live' = [live EXCEPT !.showRatingModal = FALSE, !.rating = 0,
                            !.ratingLoading = FALSE]
    /\ reqs' = OrphanModal(reqs, "RatingModal")
    /\ LiveUnchanged

\* a StarRating with a sixth star
StarValuesUpToSix == 1..6

\* StarRating: [1, 2, 3, 4, 5].map(star => <button onClick={setRating(star)}/>)
StarValues == 1..5

\* a click on a star of the modal's StarRating (readonly is false there)
SetRating(star) ==
    /\ RatingModalShown
    /\ star \in StarValues
    /\ live' = [live EXCEPT !.rating = star]
    /\ UNCHANGED reqs
    /\ LiveUnchanged

\* RatingModal.handleSubmit up to the POST.  The form's only submit button
\* is disabled while loading || rating === 0, so the handler's own
\* rating === 0 branch (error toast, no request) runs for no click.  The
\* modal's call may go out beside a call of the screen below it.
RatingSubmit ==
    /\ RatingModalShown
    /\ ~(live.ratingLoading \/ live.rating = 0)
    /\ Cardinality(reqs) <= MaxInflight
    /\ IF live.rating = 0
       THEN /\ toast' = ToastError("Please select a rating")
            /\ UNCHANGED <<live, reqs>>
       ELSE /\ live' = [live EXCEPT !.ratingLoading = TRUE]
            /\ reqs' = reqs \cup
                  {[Req("handleSubmit", "RatingModal", live.onBack, token)
                       EXCEPT !.body = live.rating]}
            /\ UNCHANGED toast
    /\ UNCHANGED <<derived, server, pageVars, booted, token, user, loading, currentPage,
                   authMode, isOnline, authPage, chat, sosPage, profileModal, upload,
                   timers>>

\* handleSubmit once POST /api/ratings has settled: onSuccess() is the
\* screen's setCanRate(false); loadRideData(), then onClose()
handleSubmitSettled(lv, r, o) ==
    IF api(o).threw
    THEN [live |-> IF r.alive THEN [lv EXCEPT !.ratingLoading = FALSE] ELSE lv,
          toast |-> ToastError(api(o).message),
          more |-> {}]
    ELSE [live |-> IF r.host
                   THEN [lv EXCEPT !.canRate = FALSE, !.showRatingModal = FALSE,
                                   !.rating = 0, !.ratingLoading = FALSE]
                   ELSE lv,
          toast |-> ToastSuccess("Thank you for your feedback!"),
          more |-> {[ReqOf(r, "loadRideData", r.arg, token)
                        EXCEPT !.owner = "LiveRideScreen", !.alive = r.host]}]

\* the server stores one rating of a user for a ride request
RatingSettle(r, o) ==
    /\ r \in reqs /\ r.h = "handleSubmit"
    /\ o \in OutcomesOf("handleSubmit")
    /\ o = Ok => server.status = "completed" /\ ~server.rated
    /\ server' = IF o = Ok THEN [server EXCEPT !.rated = TRUE] ELSE server
    /\ LET res == handleSubmitSettled(live, r, o)
           rq == (reqs \ {r}) \cup res.more
       IN  /\ live' = res.live
           /\ toast' = res.toast
           /\ reqs' = IF o = Ok /\ r.host THEN OrphanModal(rq, "RatingModal") ELSE rq
    /\ UNCHANGED <<derived, pageVars, booted, token, user, loading, currentPage,
                   authMode, isOnline, authPage, chat, sosPage, profileModal, upload,
                   timers>>

\* a handleSOS that can run without the confirmation modal
HandleSOSUnconfirmed(located) ==
    /\ LiveShown /\ ~live.sosLoading
    /\ Cardinality(reqs) <= MaxInflight
    /\ live' = [live EXCEPT !.sosLoading = TRUE]
    /\ reqs' = reqs \cup {Req("handleSOS", "LiveRideScreen",
                              IF located THEN "coords" ELSE "null", token)}
    /\ LiveUnchanged

\* handleSOS up to the POST; located tells whether geolocation gave a position.
\* The modal's call may go out beside a call of the screen's poll.
HandleSOS(located) ==
    /\ LiveShown /\ live.showSosConfirm /\ ~live.sosLoading
    /\ Cardinality(reqs) <= MaxInflight
    /\ live' = [live EXCEPT !.sosLoading = TRUE]
    /\ reqs' = reqs \cup {Req("handleSOS", "LiveRideScreen",
                              IF located THEN "coords" ELSE "null", token)}
    /\ LiveUnchanged

\* a failure that closes the confirmation modal as a success does
handleSOSSettledClosing(lv, r, o) ==
    IF api(o).threw
    THEN [live |-> IF r.alive
                   THEN [lv EXCEPT !.showSosConfirm = FALSE, !.sosLoading = FALSE]
                   ELSE lv,
          toast |-> ToastError(api(o).message)]
    ELSE [live |-> IF r.alive
                   THEN [lv EXCEPT !.sosTriggered = TRUE, !.showSosConfirm = FALSE,
                                   !.sosLoading = FALSE]
                   ELSE lv,
          toast |-> ToastSuccess("SOS Alert Sent! Help is on the way.")]

handleSOSSettled(lv, r, o) ==
    IF api(o).threw
    THEN [live |-> IF r.alive THEN [lv EXCEPT !.sosLoading = FALSE] ELSE lv,
          toast |-> ToastError(api(o).message)]
    ELSE [live |-> IF r.alive
                   THEN [lv EXCEPT !.sosTriggered = TRUE, !.showSosConfirm = FALSE,
                                   !.sosLoading = FALSE]
                   ELSE lv,
          toast |-> ToastSuccess("SOS Alert Sent! Help is on the way.")]

HandleSOSSettle(r, o) ==
    /\ r \in reqs /\ r.h = "handleSOS" /\ o \in OutcomesOf("handleSOS")
    /\ server' = IF o = Ok THEN [server EXCEPT !.sos = TRUE] ELSE server
    /\ reqs' = IF o = Ok /\ ~server.sos THEN Overtaken(reqs \ {r}) ELSE reqs \ {r}
    /\ live' = handleSOSSettled(live, r, o).live
    /\ toast' = handleSOSSettled(live, r, o).toast
    /\ UNCHANGED <<derived, pageVars, booted, token, user, loading, currentPage,
                   authMode, isOnline, authPage, chat, sosPage, profileModal, upload,
                   timers>>

\* handleReachedSafely up to the POST
HandleReachedSafely ==
    /\ LiveShown /\ isOngoing(live) /\ isRider(user) /\ ~live.reachingLoading
    /\ ~LiveOverlay
    /\ Cardinality(reqs) < MaxInflight
    /\ live' = [live EXCEPT !.reachingLoading = TRUE]
    /\ reqs' = reqs \cup {Req("handleReachedSafely", "LiveRideScreen", live.onBack, token)}
    /\ LiveUnchanged

handleReachedSafelySettled(lv, r, o) ==
    IF api(o).threw
    THEN [live |-> IF r.alive THEN [lv EXCEPT !.reachingLoading = FALSE] ELSE lv,
          toast |-> ToastError(api(o).message),
          more |-> {}]
    ELSE [live |-> IF r.alive
                   THEN [lv EXCEPT !.showRatingModal = TRUE, !.reachingLoading = FALSE]
                   ELSE lv,
          toast |-> ToastSuccess("You've arrived safely! Ride completed."),
          more |-> {ReqOf(r, "loadRideData", r.arg, token)}]

HandleReachedSafelySettle(r, o) ==
    /\ r \in reqs /\ r.h = "handleReachedSafely"
    /\ o \in OutcomesOf("handleReachedSafely")
    /\ o = Ok => server.status = "ongoing"
    /\ server' = IF o = Ok THEN [server EXCEPT !.status = "completed"] ELSE server
    /\ reqs' = (reqs \ {r}) \cup handleReachedSafelySettled(live, r, o).more
    /\ live' = handleReachedSafelySettled(live, r, o).live
    /\ toast' = handleReachedSafelySettled(live, r, o).toast
    /\ UNCHANGED <<derived, pageVars, booted, token, user, loading, currentPage,
                   authMode, isOnline, authPage, chat, sosPage, profileModal, upload,
                   timers>>

(***************************************************************************)
(* ChatModal, opened from the live ride screen or from a requests page.    *)
(***************************************************************************)
ChatHostShown ==
    \/ LiveShown /\ ~LiveOverlay
    \/ View.comp \in {"MyRequestsPage", "DriverRequestsPage"} /\ ~profileModal.open

ChatUnchanged ==
    UNCHANGED <<derived, server, pageVars, booted, token, user, loading, currentPage,
                authMode, isOnline, authPage, sosPage, profileModal, upload>>

\* setShowChat(...) in the host: the modal mounts and its effect runs
OpenChat(id) ==
    /\ ChatHostShown /\ ~chat.mounted
    /\ Cardinality(reqs) < MaxInflight
    /\ LET m == ChatMount(IF live.mounted THEN "LiveRideScreen" ELSE "RequestsPage",
                          id, reqs, timers, token)
       IN  /\ chat' = m.chat
           /\ reqs' = m.reqs
           /\ timers' = m.timers
    /\ live' = IF live.mounted THEN [live EXCEPT !.showChat = TRUE] ELSE live
    /\ UNCHANGED toast
    /\ ChatUnchanged

\* onClose: the modal unmounts and its effect's cleanup runs
CloseChat ==
    /\ chat.mounted
    /\ chat' = NoChat
    /\ timers' = ChatCleanup(timers, chat)
    /\ reqs' = OrphanModal(reqs, "ChatModal")
    /\ live' = IF live.mounted THEN [live EXCEPT !.showChat = FALSE] ELSE live
    /\ UNCHANGED toast
    /\ ChatUnchanged

ChatPoll(t) == t.owner = "ChatModal" /\ PollTick(t, "loadMessages")

loadMessages(ch, r, o, msgs, enabled) ==
    IF ~r.alive THEN ch
    ELSE IF api(o).threw
    THEN [ch EXCEPT !.chatEnabled = IF IncludesOnlyAvailableAfter(api(o).message)
                                    THEN FALSE ELSE @,
                    !.loading = FALSE]
    ELSE [ch EXCEPT !.messages = msgs, !.chatEnabled = enabled, !.loading = FALSE]

LoadMessagesSettle(r, o, msgs, enabled) ==
    /\ r \in reqs /\ r.h = "loadMessages" /\ o \in OutcomesOf("loadMessages")
    /\ o # Ok => msgs = 1 /\ enabled
    /\ reqs' = reqs \ {r}
    /\ chat' = loadMessages(chat, r, o, msgs, enabled)
    /\ UNCHANGED <<derived, server, pageVars, booted, token, user, loading, currentPage,
                   authMode, isOnline, authPage, toast, live, sosPage, profileModal,
                   upload, timers>>

Texts == {"", " ", " hi "}

\* String.prototype.trim on the texts entered
trim(text) ==
    CASE text = " " -> ""
      [] text = " hi " -> "hi"
      [] OTHER -> text

\* POST /api/chat/${requestId}/messages with body { message }
SendCall(requestId, message) == requestId \o "/messages:" \o message

\* the requestId of the closure that made the call
SendCallRequestId(arg) ==
    CHOOSE id \in RequestIds : \E text \in Texts : arg = SendCall(id, trim(text))

\* the input's onChange
SetNewMessage(text) ==
    /\ chat.mounted /\ ~chat.loading
    /\ text # chat.newMessage
    /\ chat' = [chat EXCEPT !.newMessage = text]
    /\ UNCHANGED <<reqs, timers, live, toast>>
    /\ ChatUnchanged

\* handleSend up to the POST
HandleSend ==
    /\ chat.mounted /\ ~chat.loading
    /\ ~(trim(chat.newMessage) = "" \/ chat.sending \/ ~chat.chatEnabled)
    /\ Cardinality(reqs) < MaxInflight
    /\ chat' = [chat EXCEPT !.sending = TRUE]
    /\ reqs' = reqs \cup {Req("handleSend", "ChatModal",
                              SendCall(chat.requestId, trim(chat.newMessage)), token)}
    /\ UNCHANGED <<timers, live, toast>>
    /\ ChatUnchanged

\* a handler that empties the input whatever the outcome
handleSendSettledClearing(ch, r, o) ==
    IF api(o).threw
    THEN [chat |-> IF r.alive THEN [ch EXCEPT !.newMessage = "", !.sending = FALSE] ELSE ch,
          toast |-> ToastError(api(o).message),
          more |-> {}]
    ELSE [chat |-> IF r.alive THEN [ch EXCEPT !.newMessage = "", !.sending = FALSE] ELSE ch,
          toast |-> toast,
          more |-> {ReqOf(r, "loadMessages", SendCallRequestId(r.arg), token)}]

handleSendSettled(ch, r, o) ==
    IF api(o).threw
    THEN [chat |-> IF r.alive THEN [ch EXCEPT !.sending = FALSE] ELSE ch,
          toast |-> ToastError(api(o).message),
          more |-> {}]
    ELSE [chat |-> IF r.alive THEN [ch EXCEPT !.newMessage = "", !.sending = FALSE] ELSE ch,
          toast |-> toast,
          more |-> {ReqOf(r, "loadMessages", SendCallRequestId(r.arg), token)}]

HandleSendSettle(r, o) ==
    /\ r \in reqs /\ r.h = "handleSend" /\ o \in OutcomesOf("handleSend")
    /\ reqs' = (reqs \ {r}) \cup handleSendSettled(chat, r, o).more
    /\ chat' = handleSendSettled(chat, r, o).chat
    /\ toast' = handleSendSettled(chat, r, o).toast
    /\ UNCHANGED <<derived, server, pageVars, booted, token, user, loading, currentPage,
                   authMode, isOnline, authPage, live, sosPage, profileModal, upload,
                   timers>>

(***************************************************************************)
(* AdminSOSPage.                                                           *)
(***************************************************************************)
SosUnchanged ==
    UNCHANGED <<derived, server, pageVars, booted, token, user, loading, currentPage,
                authMode, isOnline, authPage, live, chat, profileModal, upload>>

\* setFilter(f): the [filter] effect is cleaned up and runs again.  The
\* tabs are rendered while the list is loading too, and the cleanup clears
\* the interval only: a call of the previous filter stays in flight.
SetFilter(f) ==
    /\ sosPage.mounted /\ ~sosPage.selectedSOS
    /\ f # sosPage.filter
    /\ Cardinality(reqs) <= MaxInflight
    /\ LET m == SosEffect([sosPage EXCEPT !.filter = f], reqs,
                          SosCleanup(timers, sosPage), token)
       IN  /\ sosPage' = m.sosPage
           /\ reqs' = m.reqs
           /\ timers' = m.timers
    /\ UNCHANGED toast
    /\ SosUnchanged

SosPoll(t) == t.owner = "AdminSOSPage" /\ PollTick(t, "loadSOS")

SosStatuses == {"active", "reviewed", "resolved"}

\* the displayed list is the one asked for with the filter of the call;
\* status is the status of the SOS event it lists
loadSOS(sp, r, o, status) ==
    IF api(o).threw
    THEN [sosPage |-> IF r.alive THEN [sp EXCEPT !.loading = FALSE] ELSE sp,
          toast |-> ToastError("Failed to load SOS events")]
    ELSE [sosPage |-> IF r.alive
                      THEN [sp EXCEPT !.sosEvents = r.arg, !.status = status,
                                      !.loading = FALSE]
                      ELSE sp,
          toast |-> toast]

\* GET /api/admin/sos?status=active lists active events only
LoadSOSSettle(r, o, status) ==
    /\ r \in reqs /\ r.h = "loadSOS" /\ o \in OutcomesOf("loadSOS")
    /\ status \in SosStatuses
    /\ r.arg # "all" => status = r.arg
    /\ reqs' = reqs \ {r}
    /\ sosPage' = loadSOS(sosPage, r, o, status).sosPage
    /\ toast' = loadSOS(sosPage, r, o, status).toast
    /\ UNCHANGED <<derived, server, pageVars, booted, token, user, loading, currentPage,
                   authMode, isOnline, authPage, live, chat, profileModal, upload,
                   timers>>

\* buttons that stay on a resolved event
SosOfferedOnResolved(status, actionType) ==
    CASE actionType = "review" -> status = "active"
      [] actionType = "resolve" -> status \in {"active", "reviewed", "resolved"}
      [] OTHER -> FALSE

\* {sos.status === 'active' && Mark as Reviewed}
\* {(sos.status === 'active' || sos.status === 'reviewed') && Resolve}
SosOffered(status, actionType) ==
    CASE actionType = "review" -> status = "active"
      [] actionType = "resolve" -> status \in {"active", "reviewed"}
      [] OTHER -> FALSE

\* the Mark as Reviewed and Resolve buttons: setSelectedSOS({ ...sos,
\* actionType }); and with "none" the modal's Cancel: setSelectedSOS(null)
SetSelectedSOS(actionType) ==
    /\ sosPage.mounted /\ ~sosPage.loading
    /\ IF actionType # "none"
       THEN /\ sosPage.sosEvents # "none" /\ ~sosPage.selectedSOS
            /\ ~sosPage.actionLoading
            /\ SosOffered(sosPage.status, actionType)
       ELSE sosPage.selectedSOS
    /\ sosPage' = [sosPage EXCEPT !.selectedSOS = (actionType # "none"),
                                  !.actionType = actionType]
    /\ UNCHANGED <<reqs, timers, toast>>
    /\ SosUnchanged

\* handleAction up to the PUT, from the modal's Confirm
HandleAction ==
    /\ sosPage.mounted /\ sosPage.selectedSOS /\ ~sosPage.actionLoading
    /\ Cardinality(reqs) < MaxInflight
    /\ sosPage' = [sosPage EXCEPT !.actionLoading = TRUE]
    /\ reqs' = reqs \cup {Req("handleAction", "AdminSOSPage", sosPage.filter, token)}
    /\ UNCHANGED <<timers, toast>>
    /\ SosUnchanged

handleActionSettled(sp, r, o) ==
    IF api(o).threw
    THEN [sosPage |-> IF r.alive THEN [sp EXCEPT !.actionLoading = FALSE] ELSE sp,
          toast |-> ToastError(api(o).message),
          more |-> {}]
    ELSE [sosPage |-> IF r.alive
                      THEN [sp EXCEPT !.selectedSOS = FALSE, !.actionType = "none",
                                      !.actionLoading = FALSE]
                      ELSE sp,
          toast |-> ToastSuccess("SOS updated"),
          more |-> {ReqOf(r, "loadSOS", r.arg, token)}]

HandleActionSettle(r, o) ==
    /\ r \in reqs /\ r.h = "handleAction" /\ o \in OutcomesOf("handleAction")
    /\ reqs' = (reqs \ {r}) \cup handleActionSettled(sosPage, r, o).more
    /\ sosPage' = handleActionSettled(sosPage, r, o).sosPage
    /\ toast' = handleActionSettled(sosPage, r, o).toast
    /\ UNCHANGED <<derived, server, pageVars, booted, token, user, loading, currentPage,
                   authMode, isOnline, authPage, live, chat, profileModal, upload,
                   timers>>

(***************************************************************************)
(* ProfileModal, opened from a RideCard or from the driver's requests.     *)
(***************************************************************************)
ProfileHostShown ==
    View.comp \in {"RiderDashboard", "BrowseRidesPage", "DriverRequestsPage"}

ProfileUnchanged ==
    UNCHANGED <<derived, server, pageVars, booted, token, user, loading, currentPage,
                authMode, isOnline, authPage, live, chat, sosPage, upload, timers>>

\* setShowProfile(...): the modal mounts and its effect calls loadProfile
OpenProfile ==
    /\ ProfileHostShown /\ ~profileModal.open /\ ~chat.mounted
    /\ Cardinality(reqs) < MaxInflight
    /\ profileModal' = [NoProfileModal EXCEPT !.open = TRUE]
    /\ reqs' = reqs \cup {Req("loadProfile", "ProfileModal", "", token)}
    /\ UNCHANGED toast
    /\ ProfileUnchanged

\* onClose, from the Close button or the backdrop
CloseProfile ==
    /\ profileModal.open
    /\ profileModal' = NoProfileModal
    /\ reqs' = OrphanModal(reqs, "ProfileModal")
    /\ UNCHANGED toast
    /\ ProfileUnchanged

\* loadProfile once the GET has settled; onClose is the host's setShowProfile
loadProfile(pm, r, o) ==
    IF api(o).threw
    THEN [profileModal |-> IF r.host THEN NoProfileModal ELSE pm,
          closed |-> r.host /\ pm.open,
          toast |-> ToastError("Failed to load profile")]
    ELSE [profileModal |-> IF r.alive THEN [pm EXCEPT !.profile = TRUE, !.loading = FALSE]
                           ELSE pm,
          closed |-> FALSE,
          toast |-> toast]

LoadProfileSettle(r, o) ==
    /\ r \in reqs /\ r.h = "loadProfile" /\ o \in OutcomesOf("loadProfile")
    /\ profileModal' = loadProfile(profileModal, r, o).profileModal
    /\ reqs' = IF loadProfile(profileModal, r, o).closed
               THEN OrphanModal(reqs \ {r}, "ProfileModal") ELSE reqs \ {r}
    /\ toast' = loadProfile(profileModal, r, o).toast
    /\ ProfileUnchanged

(***************************************************************************)
(* VerificationSection of the profile page, and AuthProvider.refreshUser.  *)
(***************************************************************************)
VerificationStatuses == {"unverified", "pending", "verified", "rejected"}

\* canUpload: the upload controls are rendered for these statuses only
canUpload(u) == u.verification_status \in {"unverified", "rejected"}

UploadShown == View.comp = "ProfilePage" /\ ~user.is_admin /\ canUpload(user)

UploadUnchanged ==
    UNCHANGED <<derived, server, pageVars, booted, token, user, loading, currentPage,
                authMode, isOnline, authPage, live, chat, sosPage, profileModal,
                timers>>

\* handleFileSelect with an image of an accepted size and type
HandleFileSelect ==
    /\ UploadShown /\ ~upload.selectedImage
    /\ upload' = [upload EXCEPT !.selectedImage = TRUE]
    /\ UNCHANGED <<reqs, toast>>
    /\ UploadUnchanged

\* handleUpload: setUploading(true), reader.readAsDataURL, and finally
\* setUploading(false) at once; the POST is made by reader.onloadend, an
\* async callback outside the try
HandleUpload ==
    /\ UploadShown /\ ~upload.uploading
    /\ IF ~upload.selectedImage
       THEN /\ toast' = ToastError("Please select an image first")
            /\ UNCHANGED reqs
       ELSE /\ Cardinality(reqs) < MaxInflight
            /\ reqs' = reqs \cup {Req("handleUpload", "VerificationSection", "", token)}
            /\ UNCHANGED toast
    /\ UNCHANGED upload
    /\ UploadUnchanged

\* the rest of reader.onloadend; a rejected POST rejects the callback's
\* promise, which nothing handles
handleUploadSettled(up, r, o) ==
    IF api(o).threw
    THEN [upload |-> up, toast |-> toast, more |-> {}]
    ELSE [upload |-> IF r.alive THEN [up EXCEPT !.selectedImage = FALSE] ELSE up,
          toast |-> ToastSuccess("Student ID uploaded successfully!"),
          more |-> {[h |-> "refreshUser", owner |-> "AuthProvider", alive |-> TRUE,
                     host |-> TRUE, arg |-> "", tok |-> token,
                     body |-> 0]}]

HandleUploadSettle(r, o) ==
    /\ r \in reqs /\ r.h = "handleUpload" /\ o \in OutcomesOf("handleUpload")
    /\ reqs' = (reqs \ {r}) \cup handleUploadSettled(upload, r, o).more
    /\ upload' = handleUploadSettled(upload, r, o).upload
    /\ toast' = handleUploadSettled(upload, r, o).toast
    /\ UNCHANGED <<derived, server, pageVars, booted, token, user, loading, currentPage,
                   authMode, isOnline, authPage, live, chat, sosPage, profileModal,
                   timers>>

\* refreshUser: setUser(data.user), or console.error; data.user carries the
\* verification status the server holds by then
RefreshUserSettle(r, o) ==
    /\ r \in reqs /\ r.h = "refreshUser" /\ o \in OutcomesOf("refreshUser")
    /\ TokenAccepted(r.tok, o)
    /\ IF api(o).threw
       THEN /\ reqs' = reqs \ {r}
            /\ UNCHANGED user
            /\ NoRender
       ELSE /\ \E vs \in VerificationStatuses :
                  user' = [UserOfToken(r.tok) EXCEPT !.verification_status = vs]
            /\ Render(user', loading, authMode, currentPage, reqs \ {r}, timers, token)
    /\ UNCHANGED <<derived, server, pageVars, booted, token, loading, currentPage,
                   authMode, isOnline, toast>>

(***************************************************************************)
(* The pages that keep to themselves: they are followed from a session     *)
(* that stays on the page.                                                 *)
(***************************************************************************)
StayUnchanged ==
    UNCHANGED <<derived, server, booted, token, user, loading, currentPage, authMode,
                isOnline, authPage, live, chat, sosPage, profileModal, upload, timers>>

(***************************************************************************)
(* DriverRequestsPage.                                                     *)
(***************************************************************************)
MaxTyped == 5           \* characters of one value of the PIN input

\* the characters typed: a digit and something else
KeyChars == {"7", "x"}

\* e.target.value, as sequences of characters
Typed == UNION {[1..n -> KeyChars] : n \in 0..MaxTyped}

\* \D matches [^0-9]
IsDigit(c) == c \in {"0", "1", "2", "3", "4", "5", "6", "7", "8", "9"}

RECURSIVE ReplaceNonDigits(_)
\* .replace(/\D/g, '')
ReplaceNonDigits(s) ==
    IF s = <<>> THEN <<>>
    ELSE IF IsDigit(Head(s)) THEN <<Head(s)>> \o ReplaceNonDigits(Tail(s))
    ELSE ReplaceNonDigits(Tail(s))

\* .slice(0, n)
Slice(s, n) == SubSeq(s, 1, IF Len(s) < n THEN Len(s) ELSE n)

RECURSIVE Join(_)
\* the string of a sequence of characters
Join(s) == IF s = <<>> THEN "" ELSE Head(s) \o Join(Tail(s))

\* an onChange that keeps five characters
PinOnChangeFive(raw) == Join(Slice(ReplaceNonDigits(raw), 5))

\* const val = e.target.value.replace(/\D/g, '').slice(0, 4)
PinOnChange(raw) == Join(Slice(ReplaceNonDigits(raw), 4))

\* what GET /driver/accepted may list the request with
AcceptedStatuses == {"accepted", "ongoing", "completed", "rejected"}

RequestsShown == View.comp = "DriverRequestsPage" /\ ~requestsPage.loading

\* a PIN form rendered for a ride in progress as well
StartOfferedWhileOngoing(status) == status \in {"accepted", "ongoing"}

\* {request.status === 'accepted' && (... PIN input, Start Ride ...)}
StartOffered(status) == status = "accepted"

RequestsUnchanged ==
    /\ UNCHANGED <<driverDash, postRide, rideCard, reportsPage>>
    /\ StayUnchanged

\* loadRequests once both GETs of its Promise.all have settled; pending
\* lists the requests still to be answered, accepted the answered ones
LoadRequestsSettle(r, o, pending, accepted) ==
    /\ r \in reqs /\ r.h = "loadRequests" /\ o \in OutcomesOf("loadRequests")
    /\ pending # {} => accepted = "none"
    /\ reqs' = reqs \ {r}
    /\ requestsPage' =
          IF api(o).threw THEN [requestsPage EXCEPT !.loading = FALSE]
          ELSE [requestsPage EXCEPT !.pendingRequests = pending,
                                    !.acceptedRequests = accepted,
                                    !.loading = FALSE]
    /\ toast' = IF api(o).threw THEN ToastError("Failed to load requests") ELSE toast
    /\ RequestsUnchanged

\* the two tab buttons
SetActiveTab(tab) ==
    /\ View.comp = "DriverRequestsPage"
    /\ tab # requestsPage.activeTab
    /\ requestsPage' = [requestsPage EXCEPT !.activeTab = tab]
    /\ UNCHANGED <<reqs, toast>>
    /\ RequestsUnchanged

\* PUT /api/ride-requests/${requestId}/${action}
RequestPath(requestId, action) == requestId \o "/" \o action

\* handleRequest up to the PUT, from the Accept and Reject buttons of a
\* card of the pending list
HandleRequest(requestId, action) ==
    /\ RequestsShown /\ requestsPage.activeTab = "pending"
    /\ requestId \in requestsPage.pendingRequests
    /\ Cardinality(reqs) < MaxInflight
    /\ reqs' = reqs \cup {Req("handleRequest", "DriverRequestsPage",
                              RequestPath(requestId, action), token)}
    /\ UNCHANGED <<requestsPage, toast>>
    /\ RequestsUnchanged

\* toast.success(`Request ${action}ed`); loadRequests()
HandleRequestSettle(r, o, action) ==
    /\ r \in reqs /\ r.h = "handleRequest" /\ o \in OutcomesOf("handleRequest")
    /\ \E id \in RequestIds : r.arg = RequestPath(id, action)
    /\ reqs' = (reqs \ {r}) \cup
                  (IF api(o).threw THEN {} ELSE {ReqOf(r, "loadRequests", "", token)})
    /\ toast' = IF api(o).threw THEN ToastError(api(o).message)
                ELSE ToastSuccess("Request " \o action \o "ed")
    /\ UNCHANGED requestsPage
    /\ RequestsUnchanged

\* the PIN input's onChange
SetPinInput(requestId, raw) ==
    /\ RequestsShown /\ requestsPage.activeTab = "accepted"
    /\ requestId \in AcceptedIds
    /\ StartOffered(requestsPage.acceptedRequests)
    /\ requestsPage' = [requestsPage EXCEPT !.pinInput[requestId] = PinOnChange(raw)]
    /\ requestsPage' # requestsPage
    /\ UNCHANGED <<reqs, toast>>
    /\ RequestsUnchanged

\* the strings of at most 4 of the digits typed
PinStrings == {Join(s) : s \in UNION {[1..n -> {c \in KeyChars : IsDigit(c)}] : n \in 0..4}}

\* POST /api/ride-requests/${requestId}/start with the body { pin }
StartCall(requestId, pin) == requestId \o "/start:" \o pin

\* handleStartRide up to the POST: what it toasts, sets and sends.  The
\* call keeps the pinInput of the render it was made in, and body tells it
\* from a call already in flight.
handleStartRide(page, requestId) ==
    LET pin == page.pinInput[requestId]
    IN  IF pin = "" \/ Len(pin) # 4
        THEN [toast |-> ToastError("Please enter a valid 4-digit PIN"),
              page |-> page, sent |-> {}]
        ELSE [toast |-> toast,
              page |-> [page EXCEPT !.startingRide = requestId],
              sent |-> {[h |-> "handleStartRide", owner |-> "DriverRequestsPage",
                         alive |-> TRUE, host |-> TRUE,
                         arg |-> StartCall(requestId, pin),
                         tok |-> AuthHeader("handleStartRide", token),
                         body |-> Cardinality({r \in reqs : r.h = "handleStartRide"}),
                         pinInput |-> page.pinInput]}]

\* disabled={startingRide === request.id || pinInput[request.id]?.length !== 4}
StartDisabled(page, requestId) ==
    page.startingRide = requestId \/ Len(page.pinInput[requestId]) # 4

\* the rendered Start Ride button of a card
StartShown ==
    /\ RequestsShown /\ requestsPage.activeTab = "accepted"
    /\ StartOffered(requestsPage.acceptedRequests)

\* the Start Ride button: no click runs the handler with a PIN that is
\* missing or not 4 long.  A start may go out beside another one.
HandleStartRide(requestId) ==
    /\ StartShown
    /\ requestId \in AcceptedIds
    /\ ~StartDisabled(requestsPage, requestId)
    /\ Cardinality(reqs) <= MaxInflight
    /\ requestsPage' = handleStartRide(requestsPage, requestId).page
    /\ toast' = handleStartRide(requestsPage, requestId).toast
    /\ reqs' = reqs \cup handleStartRide(requestsPage, requestId).sent
    /\ RequestsUnchanged

\* handleStartRide once POST /start has settled; the server compares the PIN
\* with the rider's, which the client does not know.  On success
\* setPinInput({ ...pinInput, [requestId]: '' }) spreads the pinInput of the
\* render the button was clicked in.
HandleStartRideSettle(r, o, requestId) ==
    /\ r \in reqs /\ r.h = "handleStartRide" /\ o \in OutcomesOf("handleStartRide")
    /\ \E pin \in PinStrings : r.arg = StartCall(requestId, pin)
    /\ reqs' = (reqs \ {r}) \cup
                  (IF api(o).threw THEN {} ELSE {ReqOf(r, "loadRequests", "", token)})
    /\ toast' = IF api(o).threw THEN ToastError(api(o).message)
                ELSE ToastSuccess("Ride started successfully!")
    /\ requestsPage' =
          IF api(o).threw THEN [requestsPage EXCEPT !.startingRide = "null"]
          ELSE [requestsPage EXCEPT !.pinInput = [r.pinInput EXCEPT ![requestId] = ""],
                                    !.startingRide = "null"]
    /\ RequestsUnchanged

\* what is entered into the PIN input of a card: any typed text for the
\* first card, a 4-digit PIN entered whole for the others
TypedInto(requestId) ==
    IF requestId \in RequestIds THEN Typed
    ELSE {raw \in Typed : Len(raw) = 4 /\ \A i \in 1..4 : IsDigit(raw[i])}

RequestsStep ==
    \/ \E r \in reqs, o \in Outcomes, pending \in SUBSET RequestIds,
          accepted \in AcceptedStatuses \cup {"none"} :
          LoadRequestsSettle(r, o, pending, accepted)
    \/ \E tab \in {"pending", "accepted"} : SetActiveTab(tab)
    \/ \E id \in RequestIds, action \in {"accept", "reject"} : HandleRequest(id, action)
    \/ \E r \in reqs, o \in Outcomes, action \in {"accept", "reject"} :
          HandleRequestSettle(r, o, action)
    \/ \E id \in AcceptedIds : \E raw \in TypedInto(id) : SetPinInput(id, raw)
    \/ \E id \in AcceptedIds : HandleStartRide(id)
    \/ \E r \in reqs, o \in Outcomes, id \in AcceptedIds : HandleStartRideSettle(r, o, id)

(***************************************************************************)
(* DriverDashboard.                                                        *)
(***************************************************************************)
RideStatusValues == {"active", "completed", "cancelled"}

DashShown == View.comp = "DriverDashboard" /\ ~driverDash.loading

\* buttons that stay on a completed ride
RideActionsOfferedAlways(status) == status # "none"

\* {ride.status === 'active' && (<> Complete, Delete </>)}
RideActionsOffered(status) == status = "active"

DashUnchanged ==
    /\ UNCHANGED <<requestsPage, postRide, rideCard, reportsPage>>
    /\ StayUnchanged

\* loadRides once GET /api/rides/driver/my-rides has settled
LoadRidesSettle(r, o, status) ==
    /\ r \in reqs /\ r.h = "loadRides" /\ o \in OutcomesOf("loadRides")
    /\ reqs' = reqs \ {r}
    /\ driverDash' = IF api(o).threw THEN [driverDash EXCEPT !.loading = FALSE]
                     ELSE [driverDash EXCEPT !.rides = status, !.loading = FALSE]
    /\ toast' = IF api(o).threw THEN ToastError("Failed to load rides") ELSE toast
    /\ DashUnchanged

\* completeRide and deleteRide up to the PUT or DELETE, from the buttons of
\* the ride's card
RideAction(h) ==
    /\ DashShown /\ RideActionsOffered(driverDash.rides)
    /\ h \in {"completeRide", "deleteRide"}
    /\ Cardinality(reqs) < MaxInflight
    /\ reqs' = reqs \cup {Req(h, "DriverDashboard", driverDash.rides, token)}
    /\ UNCHANGED <<driverDash, toast>>
    /\ DashUnchanged

\* completeRide and deleteRide once the call has settled
RideActionSettle(r, o) ==
    /\ r \in reqs /\ r.h \in {"completeRide", "deleteRide"} /\ o \in OutcomesOf(r.h)
    /\ reqs' = (reqs \ {r}) \cup
                  (IF api(o).threw THEN {} ELSE {ReqOf(r, "loadRides", "", token)})
    /\ toast' = IF api(o).threw THEN ToastError(api(o).message)
                ELSE IF r.h = "completeRide" THEN ToastSuccess("Ride marked as completed")
                ELSE ToastSuccess("Ride deleted")
    /\ UNCHANGED driverDash
    /\ DashUnchanged

DashStep ==
    \/ \E r \in reqs, o \in Outcomes, status \in RideStatusValues \cup {"none"} :
          LoadRidesSettle(r, o, status)
    \/ \E h \in {"completeRide", "deleteRide"} : RideAction(h)
    \/ \E r \in reqs, o \in Outcomes : RideActionSettle(r, o)

(***************************************************************************)
(* PostRidePage.  It is rendered outside PageWrapper and reads the online  *)
(* status through its own useOnlineStatus, which follows the same events   *)
(* as AppContent's.                                                        *)
(***************************************************************************)
\* a check that lets a pending verification pass
isVerifiedOrPending(u) == u.verification_status \in {"verified", "pending"}

\* user?.verification_status === 'verified' (RideCard.isVerified, and negated
\* in PostRidePage's gate)
isVerified(u) == u.verification_status = "verified"

\* .trim() of the texts entered: blank and non-blank ones
LocationTexts == {"", " ", "RVCE"}

Blank(text) == text \in {"", " "}

\* a latitude picked from the map; 0 is one, and it is falsy
Latitudes == {"0", "12.9"}

\* a test that takes null for a latitude
FalsyZeroOnly(lat) == lat = "0"

\* !formData.source_lat
Falsy(lat) == lat \in {"null", "0"}

\* isOnline ? (!formData.source_lat || !formData.destination_lat)
\*          : (!formData.source.trim() || !formData.destination.trim())
LocationsMissing(form, online) ==
    IF online THEN Falsy(form.source_lat) \/ Falsy(form.destination_lat)
    ELSE Blank(form.source) \/ Blank(form.destination)

PostRideShown == View.comp = "PostRidePage" /\ isVerified(user)

\* {isOnline && <MapLocationPicker isOpen={showSourcePicker}/> ...}
PickerShown == PostRideShown /\ isOnline /\ postRide.picker # "none"

PostRideUnchanged ==
    /\ UNCHANGED <<requestsPage, driverDash, rideCard, reportsPage>>
    /\ StayUnchanged

\* the Select buttons of the online form and the picker's onClose
SetShowPicker(which) ==
    /\ PostRideShown /\ isOnline
    /\ IF which = "none" THEN PickerShown ELSE ~PickerShown
    /\ postRide' = [postRide EXCEPT !.picker = which]
    /\ UNCHANGED <<reqs, toast>>
    /\ PostRideUnchanged

\* handleSourceSelect and handleDestSelect, the onSelect of the open picker,
\* which then closes itself
HandleLocationSelect(address, lat) ==
    /\ PickerShown
    /\ postRide' = IF postRide.picker = "source"
                   THEN [postRide EXCEPT !.source = address, !.source_lat = lat,
                                         !.picker = "none"]
                   ELSE [postRide EXCEPT !.destination = address,
                                         !.destination_lat = lat, !.picker = "none"]
    /\ UNCHANGED <<reqs, toast>>
    /\ PostRideUnchanged

\* the text inputs of the offline form: onChange sets the text and resets
\* the coordinates to null
SetLocationText(which, text) ==
    /\ PostRideShown /\ ~isOnline
    /\ postRide' = IF which = "source"
                   THEN [postRide EXCEPT !.source = text, !.source_lat = "null"]
                   ELSE [postRide EXCEPT !.destination = text,
                                         !.destination_lat = "null"]
    /\ postRide' # postRide
    /\ UNCHANGED <<reqs, toast>>
    /\ PostRideUnchanged

\* the recurring toggle, and the pattern select shown under it
SetRecurrence(recurring, pattern) ==
    /\ PostRideShown /\ ~PickerShown
    /\ \/ recurring # postRide.is_recurring /\ pattern = postRide.recurrence_pattern
       \/ recurring = postRide.is_recurring /\ recurring
          /\ pattern # postRide.recurrence_pattern
    /\ postRide' = [postRide EXCEPT !.is_recurring = recurring,
                                    !.recurrence_pattern = pattern]
    /\ UNCHANGED <<reqs, toast>>
    /\ PostRideUnchanged

\* handleSubmit up to the POST: what it toasts, sets and sends
handleSubmit(form, online) ==
    IF online /\ (Falsy(form.source_lat) \/ Falsy(form.destination_lat))
    THEN [toast |-> ToastError(
              "Please select locations from the map for accurate route display"),
          loading |-> form.loading, sent |-> {}]
    ELSE IF ~online /\ (Blank(form.source) \/ Blank(form.destination))
    THEN [toast |-> ToastError("Please enter pickup and drop locations"),
          loading |-> form.loading, sent |-> {}]
    ELSE IF form.is_recurring /\ form.recurrence_pattern = ""
    THEN [toast |-> ToastError("Please select a recurrence pattern for recurring rides"),
          loading |-> form.loading, sent |-> {}]
    ELSE [toast |-> toast, loading |-> TRUE,
          sent |-> {Req("PostRidePage.handleSubmit", "PostRidePage",
                        IF ~online THEN "is_offline_mode: true"
                        ELSE "is_offline_mode: false", token)}]

\* the form's submission.  Its submit button is disabled={loading ||
\* LocationsMissing}, and the browser holds the submission back while the
\* pattern select, required={formData.is_recurring}, has no value; the
\* other required inputs (date, time, seats, cost) are taken as filled.
HandleSubmit ==
    /\ PostRideShown /\ ~PickerShown
    /\ ~(postRide.loading \/ LocationsMissing(postRide, isOnline))
    /\ ~(postRide.is_recurring /\ postRide.recurrence_pattern = "")
    /\ Cardinality(reqs) < MaxInflight
    /\ postRide' = [postRide EXCEPT !.loading = handleSubmit(postRide, isOnline).loading]
    /\ toast' = handleSubmit(postRide, isOnline).toast
    /\ reqs' = reqs \cup handleSubmit(postRide, isOnline).sent
    /\ PostRideUnchanged

\* handleSubmit once POST /api/rides has settled; created is the response's
\* recurring_rides_created.  On success setCurrentPage('dashboard') takes
\* the driver to the dashboard, which mounts and loads its rides.
HandleSubmitSettle(r, o, created) ==
    /\ r \in reqs /\ r.h = "PostRidePage.handleSubmit"
    /\ o \in OutcomesOf("PostRidePage.handleSubmit")
    /\ IF api(o).threw
       THEN /\ toast' = ToastError(api(o).message)
            /\ postRide' = [postRide EXCEPT !.loading = FALSE]
            /\ reqs' = reqs \ {r}
            /\ UNCHANGED <<currentPage, driverDash>>
            /\ NoRender
       ELSE /\ toast' = IF created > 0
                        THEN ToastSuccess("Ride posted! + " \o ToString(created)
                                          \o " recurring instances created")
                        ELSE ToastSuccess("Ride posted successfully!")
            /\ currentPage' = "dashboard"
            /\ postRide' = NoPostRide
            /\ driverDash' = NoDriverDash
            /\ Render(user, loading, authMode, "dashboard",
                      (reqs \ {r}) \cup {Req("loadRides", "DriverDashboard", "", token)},
                      timers, token)
    /\ UNCHANGED <<derived, server, requestsPage, rideCard, reportsPage, booted, token,
                   user, loading, authMode, isOnline>>

PostRideStep ==
    \/ \E which \in {"source", "destination", "none"} : SetShowPicker(which)
    \/ \E address \in LocationTexts \ {""}, lat \in Latitudes :
          HandleLocationSelect(address, lat)
    \/ \E which \in {"source", "destination"}, text \in LocationTexts :
          SetLocationText(which, text)
    \/ \E recurring \in BOOLEAN, pattern \in {"", "daily"} :
          SetRecurrence(recurring, pattern)
    \/ HandleSubmit
    \/ \E r \in reqs, o \in Outcomes, created \in 0..MaxData :
          HandleSubmitSettle(r, o, created)
    \/ View.comp = "PostRidePage" /\ handleOnline
    \/ View.comp = "PostRidePage" /\ handleOffline

(***************************************************************************)
(* BrowseRidesPage with the RideCard of the ride it lists.                 *)
(***************************************************************************)
BrowseShown == View.comp = "BrowseRidesPage" /\ ~rideCard.loading /\ rideCard.listed

\* hasRequested ? badge : isVerified ? (urgent button, Request) : 'Verify to
\* request'
RequestOffered == BrowseShown /\ ~rideCard.hasRequested /\ isVerified(user)

BrowseUnchanged ==
    /\ UNCHANGED <<requestsPage, driverDash, postRide, reportsPage>>
    /\ StayUnchanged

\* loadData once both GETs of its Promise.all have settled: whether a ride
\* is listed, whether the user's requests hold one for it, and what
\* isUrgentEligible() gives for it
LoadDataSettle(r, o, listed, requested, urgent) ==
    /\ r \in reqs /\ r.h = "loadData" /\ o \in OutcomesOf("loadData")
    /\ ~listed => ~urgent
    /\ reqs' = reqs \ {r}
    /\ rideCard' = IF api(o).threw THEN [rideCard EXCEPT !.loading = FALSE]
                   ELSE [rideCard EXCEPT !.listed = listed, !.hasRequested = requested,
                                         !.urgentEligible = urgent, !.loading = FALSE]
    /\ toast' = IF api(o).threw THEN ToastError("Failed to load rides") ELSE toast
    /\ BrowseUnchanged

\* the urgent button of the card, and the urgent modal's Cancel and backdrop
SetShowUrgentModal(b) ==
    /\ IF b THEN RequestOffered /\ rideCard.urgentEligible /\ ~rideCard.showUrgentModal
       ELSE BrowseShown /\ rideCard.showUrgentModal
    /\ rideCard' = [rideCard EXCEPT !.showUrgentModal = b]
    /\ UNCHANGED <<reqs, toast>>
    /\ BrowseUnchanged

\* requestRide(rideId, isUrgent) up to the POST: from the card's Request
\* button, and from the urgent modal's two buttons, which close the modal
RequestRide(isUrgent, fromModal) ==
    /\ IF fromModal THEN BrowseShown /\ rideCard.showUrgentModal
       ELSE RequestOffered /\ ~rideCard.showUrgentModal /\ ~isUrgent
    /\ Cardinality(reqs) < MaxInflight
    /\ rideCard' = [rideCard EXCEPT !.showUrgentModal = FALSE]
    /\ reqs' = reqs \cup {Req("requestRide", "BrowseRidesPage",
                              IF isUrgent THEN "is_urgent: true" ELSE "is_urgent: false",
                              token)}
    /\ UNCHANGED toast
    /\ BrowseUnchanged

\* requestRide once the POST has settled; loadData() starts with
\* setLoading(true), which takes the cards off the page
RequestRideSettle(r, o) ==
    /\ r \in reqs /\ r.h = "requestRide" /\ o \in OutcomesOf("requestRide")
    /\ reqs' = (reqs \ {r}) \cup
                  (IF api(o).threw THEN {} ELSE {ReqOf(r, "loadData", "", token)})
    /\ toast' = IF api(o).threw THEN ToastError(api(o).message)
                ELSE IF r.arg = "is_urgent: true"
                THEN ToastSuccess("Urgent ride requested!")
                ELSE ToastSuccess("Ride requested successfully!")
    /\ rideCard' = IF api(o).threw THEN rideCard
                   ELSE [rideCard EXCEPT !.loading = TRUE, !.showUrgentModal = FALSE]
    /\ BrowseUnchanged

BrowseStep ==
    \/ \E r \in reqs, o \in Outcomes, listed, requested, urgent \in BOOLEAN :
          LoadDataSettle(r, o, listed, requested, urgent)
    \/ \E b \in BOOLEAN : SetShowUrgentModal(b)
    \/ \E isUrgent, fromModal \in BOOLEAN : RequestRide(isUrgent, fromModal)
    \/ \E r \in reqs, o \in Outcomes : RequestRideSettle(r, o)

(***************************************************************************)
(* AdminReportsPage.                                                       *)
(***************************************************************************)
ReportStatuses == {"pending", "under_review", "resolved", "dismissed"}

ReportActions == {"warn", "suspend", "disable", "dismiss"}

ReportsShown == View.comp = "AdminReportsPage" /\ ~reportsPage.loading

\* {report.status === 'pending' && <button>Handle</button>}
HandleOffered(status) == status = "pending"

ReportsUnchanged ==
    /\ UNCHANGED <<requestsPage, driverDash, postRide, rideCard>>
    /\ StayUnchanged

\* loadReports once GET /api/admin/reports has settled
LoadReportsSettle(r, o, status) ==
    /\ r \in reqs /\ r.h = "loadReports" /\ o \in OutcomesOf("loadReports")
    /\ reqs' = reqs \ {r}
    /\ reportsPage' = IF api(o).threw THEN [reportsPage EXCEPT !.loading = FALSE]
                      ELSE [reportsPage EXCEPT !.reports = status, !.loading = FALSE]
    /\ toast' = IF api(o).threw THEN ToastError("Failed to load reports") ELSE toast
    /\ ReportsUnchanged

\* the Handle button: setSelectedReport(report); and the modal's Cancel
SetSelectedReport(b) ==
    /\ ReportsShown
    /\ IF b THEN ~reportsPage.selectedReport /\ HandleOffered(reportsPage.reports)
       ELSE reportsPage.selectedReport
    /\ reportsPage' = [reportsPage EXCEPT !.selectedReport = b]
    /\ UNCHANGED <<reqs, toast>>
    /\ ReportsUnchanged

\* handleReportAction up to the PUT, from the modal's four buttons, each
\* disabled={actionLoading}
HandleReportAction(action) ==
    /\ ReportsShown /\ reportsPage.selectedReport /\ ~reportsPage.actionLoading
    /\ action \in ReportActions
    /\ Cardinality(reqs) < MaxInflight
    /\ reportsPage' = [reportsPage EXCEPT !.actionLoading = TRUE]
    /\ reqs' = reqs \cup {Req("handleReportAction", "AdminReportsPage", action, token)}
    /\ UNCHANGED toast
    /\ ReportsUnchanged

\* handleReportAction once the PUT has settled
HandleReportActionSettle(r, o) ==
    /\ r \in reqs /\ r.h = "handleReportAction"
    /\ o \in OutcomesOf("handleReportAction")
    /\ reqs' = (reqs \ {r}) \cup
                  (IF api(o).threw THEN {} ELSE {ReqOf(r, "loadReports", "", token)})
    /\ toast' = IF api(o).threw THEN ToastError(api(o).message)
                ELSE IF r.arg = "dismiss" THEN ToastSuccess("Report dismissed successfully")
                ELSE ToastSuccess("Report handled successfully")
    /\ reportsPage' = IF api(o).threw THEN [reportsPage EXCEPT !.actionLoading = FALSE]
                      ELSE [reportsPage EXCEPT !.selectedReport = FALSE,
                                               !.actionLoading = FALSE]
    /\ ReportsUnchanged

ReportsStep ==
    \/ \E r \in reqs, o \in Outcomes, status \in ReportStatuses \cup {"none"} :
          LoadReportsSettle(r, o, status)
    \/ \E b \in BOOLEAN : SetSelectedReport(b)
    \/ \E action \in ReportActions : HandleReportAction(action)
    \/ \E r \in reqs, o \in Outcomes : HandleReportActionSettle(r, o)

\* a session that is open: u is signed in and looks at page
SignedIn(u, page) ==
    /\ booted = TRUE
    /\ token = TokenOf(u)
    /\ user = u
    /\ loading = FALSE
    /\ currentPage = page
    /\ authMode = "login"
    /\ isOnline = TRUE
    /\ authPage = NoAuthPage
    /\ toast = NoToast
    /\ profileModal = NoProfileModal
    /\ upload = NoUpload
    /\ live = NoLive
    /\ chat = NoChat
    /\ PagesIdle

(***************************************************************************)
(* SpecDerive: the derivation functions and the router, each applied to    *)
(* every input of a bounded set; derived holds the last evaluation.        *)
(***************************************************************************)
RoleInputs == {NoUser} \cup
              {[id |-> "u", role |-> ro, is_admin |-> ad] :
                  ro \in {"rider", "driver", "admin"}, ad \in BOOLEAN}

\* the inputs the evaluations are applied to
DeriveInputs ==
    {[op |-> "input", fn |-> "classifyTrust", rideCount |-> rc, avgRating |-> ar] :
        rc \in 0..MaxRideCount, ar \in AvgRatings}
    \cup {[op |-> "input", fn |-> "computeEcoImpact", distanceKm |-> d] :
            d \in 0..MaxDistanceKm}
    \cup {[op |-> "input", fn |-> "isUrgentEligible", ride |-> ride, now |-> now] :
            ride \in Rides, now \in Nows}
    \cup {[op |-> "input", fn |-> "TrustBadge", trustLevel |-> tl] :
            tl \in TrustLevelInputs}
    \cup {[op |-> "input", fn |-> "AppContent", user |-> u, loading |-> ld,
           authMode |-> mode, page |-> page] :
            u \in RoleInputs, ld \in BOOLEAN, mode \in {"login", "signup"}, page \in Pages}

Pending(fn) == derived.op = "input" /\ derived.fn = fn

EvalClassifyTrust ==
    /\ Pending("classifyTrust")
    /\ derived' = [op |-> "classifyTrust", rideCount |-> derived.rideCount,
                   avgRating |-> derived.avgRating,
                   label |-> classifyTrust(derived.rideCount, derived.avgRating)]
    /\ UNCHANGED appVars

EvalComputeEcoImpact ==
    /\ Pending("computeEcoImpact")
    /\ derived' = [op |-> "computeEcoImpact", distanceKm |-> derived.distanceKm,
                   impact |-> computeEcoImpact(derived.distanceKm)]
    /\ UNCHANGED appVars

\* RideCard renders: isUrgentEligible() with the clock at now
EvalIsUrgentEligible ==
    /\ Pending("isUrgentEligible")
    /\ derived' = [op |-> "isUrgentEligible", ride |-> derived.ride, now |-> derived.now,
                   result |-> isUrgentEligible(derived.ride, derived.now)]
    /\ UNCHANGED appVars

EvalTrustBadge ==
    /\ Pending("TrustBadge")
    /\ derived' = [op |-> "TrustBadge", trustLevel |-> derived.trustLevel,
                   result |-> TrustBadge(derived.trustLevel)]
    /\ UNCHANGED appVars

EvalAppContent ==
    /\ Pending("AppContent")
    /\ derived' = [op |-> "AppContent", user |-> derived.user, loading |-> derived.loading,
                   authMode |-> derived.authMode, page |-> derived.page,
                   view |-> AppContent(derived.user, derived.loading,
                                       derived.authMode, derived.page)]
    /\ UNCHANGED appVars

DeriveInit ==
    /\ derived \in DeriveInputs
    /\ SignedIn(Rider, "dashboard")
    /\ sosPage = NoSosPage /\ reqs = {} /\ timers = {}
    /\ server = ServerOf("ongoing")

DeriveNext ==
    \/ EvalClassifyTrust
    \/ EvalComputeEcoImpact
    \/ EvalIsUrgentEligible
    \/ EvalTrustBadge
    \/ EvalAppContent

SpecDerive == DeriveInit /\ [][DeriveNext]_vars

(***************************************************************************)
(* Spec: the session and the router.  Every page can be visited; of the    *)
(* pages' own behaviour it has what their mount effects start (the loads   *)
(* and polls of the live ride screen and of the SOS page) and the student  *)
(* ID upload with the refreshUser it ends in.                              *)
(***************************************************************************)
SessionStep ==
    \/ AuthProviderMount
    \/ \E r \in reqs, o \in Outcomes : StartupMeSettle(r, o)
    \/ \E u \in Users : LoginSubmit(u)
    \/ \E u \in {Rider, Driver} : SignupSubmit(u)
    \/ \E r \in reqs, o \in Outcomes : LoginSettle(r, o)
    \/ \E r \in reqs, o \in Outcomes : SignupSettle(r, o)
    \/ SwitchAuthMode
    \/ Logout
    \/ handleOnline
    \/ handleOffline
    \/ HandleFileSelect
    \/ HandleUpload
    \/ \E r \in reqs, o \in Outcomes : HandleUploadSettle(r, o)
    \/ \E r \in reqs, o \in Outcomes : RefreshUserSettle(r, o)

LoadStep ==
    \/ \E t \in timers : LiveRidePoll(t)
    \/ \E r \in reqs, o \in Outcomes, rd \in RideDataValues : LoadRideDataSettle(r, o, rd)
    \/ \E r \in reqs, o \in Outcomes, can \in BOOLEAN : CanRateSettle(r, o, can)
    \/ \E t \in timers : SosPoll(t)
    \/ \E r \in reqs, o \in Outcomes, status \in SosStatuses : LoadSOSSettle(r, o, status)

Next ==
    \/ SessionStep
    \/ LoadStep
    \/ \E page \in Pages : Navigate(page)

Spec == Init /\ [][Next]_vars

\* the mount effect runs once the provider is mounted, and the browser
\* settles every fetch, with an answer or with a network error
StartupFair ==
    /\ WF_vars(AuthProviderMount)
    /\ WF_vars(\E r \in reqs, o \in Outcomes : StartupMeSettle(r, o))

SpecStartup == Init /\ [][Next]_vars /\ StartupFair

(***************************************************************************)
(* SpecPages: what happens inside the pages of a session that is already   *)
(* open: the live ride screen, the chat and profile modals and the admin's *)
(* SOS page.  It starts from a rider on 'my-requests', a driver on         *)
(* 'requests' or an admin who has just opened 'sos'.                       *)
(***************************************************************************)
PagesInit ==
    /\ derived = NoDerived
    /\ \/ /\ SignedIn(Rider, "my-requests")
          /\ sosPage = NoSosPage /\ reqs = {} /\ timers = {}
          /\ server \in {ServerOf(st) : st \in {"ongoing", "completed"}}
       \/ /\ SignedIn(Driver, "requests")
          /\ sosPage = NoSosPage /\ reqs = {} /\ timers = {}
          /\ server \in {ServerOf(st) : st \in {"ongoing", "completed"}}
       \/ /\ SignedIn(Admin, "sos")
          /\ server = ServerOf("ongoing")
          /\ LET m == SosEffect(NoSosPage, {}, {}, TokenOf(Admin))
             IN  sosPage = m.sosPage /\ reqs = m.reqs /\ timers = m.timers

PageScope == LiveRidePages \cup {"my-requests", "requests", "sos", "admin"}

LiveStep ==
    \/ \E b \in BOOLEAN : SetShowSosConfirm(b)
    \/ OpenRatingModal
    \/ CloseRatingModal
    \/ \E star \in StarValues : SetRating(star)
    \/ RatingSubmit
    \/ \E r \in reqs, o \in Outcomes : RatingSettle(r, o)
    \/ \E located \in BOOLEAN : HandleSOS(located)
    \/ \E r \in reqs, o \in Outcomes : HandleSOSSettle(r, o)
    \/ HandleReachedSafely
    \/ \E r \in reqs, o \in Outcomes : HandleReachedSafelySettle(r, o)

ChatStep ==
    \/ \E id \in RequestIds : OpenChat(id)
    \/ CloseChat
    \/ \E t \in timers : ChatPoll(t)
    \/ \E r \in reqs, o \in Outcomes, msgs \in 1..MaxData, enabled \in BOOLEAN :
          LoadMessagesSettle(r, o, msgs, enabled)
    \/ \E text \in Texts : SetNewMessage(text)
    \/ HandleSend
    \/ \E r \in reqs, o \in Outcomes : HandleSendSettle(r, o)

AdminSosStep ==
    \/ \E f \in Filters : SetFilter(f)
    \/ \E actionType \in {"review", "resolve", "none"} : SetSelectedSOS(actionType)
    \/ HandleAction
    \/ \E r \in reqs, o \in Outcomes : HandleActionSettle(r, o)

ProfileStep ==
    \/ OpenProfile
    \/ CloseProfile
    \/ \E r \in reqs, o \in Outcomes : LoadProfileSettle(r, o)

PagesNext ==
    \/ LoadStep
    \/ LiveStep
    \/ ChatStep
    \/ AdminSosStep
    \/ ProfileStep
    \/ \E page \in PageScope : Navigate(page)

SpecPages == PagesInit /\ [][PagesNext]_vars

(***************************************************************************)
(* SpecScenes: the pages that keep to themselves, each followed from a     *)
(* session that has just opened it: the mount effect's load is in flight.  *)
(* (PostRidePage's mount effect loads the options of its selects and only  *)
(* logs a failure.)                                                        *)
(***************************************************************************)
Scene(u, page, load, owner) ==
    /\ SignedIn(u, page)
    /\ sosPage = NoSosPage /\ timers = {}
    /\ reqs = IF load = "" THEN {} ELSE {Req(load, owner, "", TokenOf(u))}

ScenesInit ==
    /\ derived = NoDerived
    /\ server = ServerOf("ongoing")
    /\ \/ Scene(Driver, "requests", "loadRequests", "DriverRequestsPage")
       \/ Scene(Driver, "dashboard", "loadRides", "DriverDashboard")
       \/ \E vs \in VerificationStatuses :
             Scene([Driver EXCEPT !.verification_status = vs], "post-ride", "", "")
       \/ \E vs \in VerificationStatuses :
             Scene([Rider EXCEPT !.verification_status = vs], "browse", "loadData",
                   "BrowseRidesPage")
       \/ Scene(Admin, "reports", "loadReports", "AdminReportsPage")
       \/ /\ SignedIn(Admin, "sos")
          /\ LET m == SosEffect(NoSosPage, {}, {}, TokenOf(Admin))
             IN  sosPage = m.sosPage /\ reqs = m.reqs /\ timers = m.timers

ScenesNext ==
    \/ RequestsStep
    \/ DashStep
    \/ PostRideStep
    \/ BrowseStep
    \/ ReportsStep
    \/ AdminSosStep
    \/ \E t \in timers : SosPoll(t)
    \/ \E r \in reqs, o \in Outcomes, status \in SosStatuses : LoadSOSSettle(r, o, status)

SpecScenes == ScenesInit /\ [][ScenesNext]_vars

(***************************************************************************)
(* Properties of the derivation functions, under SpecDerive.               *)
(***************************************************************************)
Classified == derived.op = "classifyTrust"

\* C1: classifyTrust returns new_user when rideCount < 3; otherwise
\* low_rating when avgRating is non-null and below 3.0; otherwise trusted
\* when rideCount >= 10 and avgRating >= 4.5; otherwise regular.  Every
\* input gets exactly one of the four labels, and (0, null) is new_user,
\* (15, 4.8) trusted, (5, 2.9) low_rating, (5, 4.0) regular.
C1_ClassifyTrust ==
    Classified =>
        LET rc == derived.rideCount
            ar == derived.avgRating
            few == rc < 3
            low == ~ar.isNull /\ ar.tenths < 30
            high == rc >= 10 /\ ~ar.isNull /\ ar.tenths >= 45
        IN  /\ derived.label \in TrustLabels
            /\ (derived.label = "new_user") <=> few
            /\ (derived.label = "low_rating") <=> (~few /\ low)
            /\ (derived.label = "trusted") <=> (~few /\ ~low /\ high)
            /\ (derived.label = "regular") <=> (~few /\ ~low /\ ~high)
            /\ (rc = 0 /\ ar = NullRating) => derived.label = "new_user"
            /\ (rc = 15 /\ ar = Rating(48)) => derived.label = "trusted"
            /\ (rc = 5 /\ ar = Rating(29)) => derived.label = "low_rating"
            /\ (rc = 5 /\ ar = Rating(40)) => derived.label = "regular"

\* a user on the trusted threshold: 10 rides, average exactly 4.5
C1_Witness ==
    /\ Classified
    /\ derived.rideCount = 10
    /\ derived.avgRating = Rating(45)
    /\ derived.label = "trusted"

UrgencyEvaluated == derived.op = "isUrgentEligible"

WellFormedRide(ride) == ~ride.isNull /\ ride.date.ok /\ ride.time.ok

\* ticks from now until the ride leaves
TicksUntilDeparture(ride, now) ==
    (ride.date.v * MinutesPerDay + ride.time.v) * TicksPerMin - now

\* C2: isUrgentEligible is true exactly when the time from now until
\* departure satisfies 0 < diff <= 60 minutes; the window is the constant 60
\* of the code, the function takes no window parameter.  A ride leaving in 30
\* minutes is eligible, one leaving in 90 minutes is not, one that left 5
\* minutes ago is not.
C2_UrgentWindow ==
    (UrgencyEvaluated /\ WellFormedRide(derived.ride)) =>
        LET diff == TicksUntilDeparture(derived.ride, derived.now)
        IN  /\ ~derived.result.threw
            /\ derived.result.value = (0 < diff /\ diff <= 60 * TicksPerMin)
            /\ (diff = 30 * TicksPerMin) => derived.result.value
            /\ (diff = 90 * TicksPerMin) => ~derived.result.value
            /\ (diff = -5 * TicksPerMin) => ~derived.result.value

\* a ride leaving in exactly 60 minutes is shown as urgent
C2_Witness ==
    /\ UrgencyEvaluated
    /\ WellFormedRide(derived.ride)
    /\ TicksUntilDeparture(derived.ride, derived.now) = 60 * TicksPerMin
    /\ derived.result.value

\* the windows the function is said to be configurable with
ClaimedWindows == {UrgentWindowMinutes, 2 * UrgentWindowMinutes}

\* C2 as first stated: eligible exactly when 0 < diff <= windowMinutes, for
\* every value of the window (60 or 120)
C2_AnyWindow ==
    (UrgencyEvaluated /\ WellFormedRide(derived.ride)) =>
        LET diff == TicksUntilDeparture(derived.ride, derived.now)
        IN  \A windowMinutes \in ClaimedWindows :
                derived.result.value = (0 < diff /\ diff <= windowMinutes * TicksPerMin)

EcoEvaluated == derived.op = "computeEcoImpact"

\* C3: computeEcoImpact(distanceKm) returns co2SavedKg = distanceKm * 0.21 *
\* 0.5 and treesEquivalent = co2SavedKg / 21 for every non-negative distance;
\* computeEcoImpact(100) is 10.5 kg and 0.5 trees.  (Thousandths: 0.105 kg
\* per km is 105, and x / 21 = y is y * 21 = x.)
C3_EcoImpact ==
    EcoEvaluated =>
        /\ derived.impact.co2SavedMilliKg = derived.distanceKm * 105
        /\ derived.impact.treesMilli * 21 = derived.impact.co2SavedMilliKg
        /\ derived.distanceKm = 100 =>
              /\ derived.impact.co2SavedMilliKg = 10500
              /\ derived.impact.treesMilli = 500

C3_Witness ==
    /\ EcoEvaluated
    /\ derived.distanceKm = 100
    /\ derived.impact = [co2SavedMilliKg |-> 10500, treesMilli |-> 500]

\* C4: a user with no ratings yet is never low_rating, whatever the ride
\* count; and a user with fewer than 3 rides is new_user whatever the rating.
C4_NoRatingNotLow ==
    Classified =>
        /\ derived.avgRating.isNull => derived.label # "low_rating"
        /\ derived.rideCount < 3 => derived.label = "new_user"

\* an unrated user past the new-user range is regular
C4_Witness ==
    /\ Classified
    /\ derived.rideCount = 5
    /\ derived.avgRating.isNull
    /\ derived.label = "regular"

BadgeEvaluated == derived.op = "TrustBadge"

\* C5: the derivation logic fails closed: isUrgentEligible returns false and
\* does not throw for a ride whose date or time is missing or unparseable;
\* TrustBadge renders nothing for a missing trust level and the neutral 'new'
\* style for a level that is none of trusted, regular, new, low.
C5_FailClosed ==
    /\ (UrgencyEvaluated /\ ~WellFormedRide(derived.ride)) =>
          (~derived.result.threw /\ ~derived.result.value)
    /\ (BadgeEvaluated /\ ~derived.trustLevel.present) =>
          derived.result.out = "nothing"
    /\ (BadgeEvaluated /\ derived.trustLevel.present
          /\ derived.trustLevel.level \notin StyleKeys) =>
          derived.result = [out |-> "badge", style |-> "new"]

(***************************************************************************)
(* The router, under SpecDerive.                                           *)
(***************************************************************************)
Routed == derived.op = "AppContent"

AdminComponents ==
    {"AdminVerificationsPage", "AdminSOSPage", "AdminEventTagsPage", "AdminUsersPage",
     "AdminReportsPage", "AdminAuditLogsPage", "AdminRidesMonitoringPage",
     "AdminAnalyticsPage", "AdminDashboard"}

\* the page names some switch of the router has a case for
RoutedPages ==
    AdminPages \cup LiveRidePages \cup
    {"profile", "post-ride", "requests", "stats", "history", "live-ride", "browse",
     "my-requests"}

DashboardOf(u) ==
    IF u.is_admin THEN "AdminDashboard"
    ELSE IF u.role = "driver" THEN "DriverDashboard"
    ELSE "RiderDashboard"

\* C9: for every value of currentPage: while loading only the loading screen
\* is shown; with no user only the login or signup page; an admin page only
\* when user.is_admin; post-ride and driver requests only for a non-admin
\* driver; browse and my-requests only for a non-admin non-driver; an unknown
\* page name falls back to the dashboard of the user's role.
C9_RoleGatedRouter ==
    Routed =>
        LET u == derived.user
            comp == derived.view.comp
        IN  /\ derived.loading => comp = "LoadingScreen"
            /\ (~derived.loading /\ u = NoUser) => comp \in {"LoginPage", "SignupPage"}
            /\ comp \in AdminComponents =>
                  (~derived.loading /\ u # NoUser /\ u.is_admin)
            /\ comp \in {"PostRidePage", "DriverRequestsPage"} =>
                  (~derived.loading /\ u # NoUser /\ ~u.is_admin /\ u.role = "driver")
            /\ comp \in {"BrowseRidesPage", "MyRequestsPage"} =>
                  (~derived.loading /\ u # NoUser /\ ~u.is_admin /\ u.role # "driver")
            /\ (~derived.loading /\ u # NoUser /\ derived.page \notin RoutedPages) =>
                  comp = DashboardOf(u)

\* a rider whose currentPage names an admin page gets the rider dashboard
C9_Witness ==
    /\ Routed
    /\ ~derived.loading
    /\ derived.user # NoUser
    /\ ~derived.user.is_admin
    /\ derived.user.role = "rider"
    /\ derived.page = "sos"
    /\ derived.view.comp = "RiderDashboard"

(***************************************************************************)
(* The session and the error toasts, under Spec.                           *)
(***************************************************************************)
\* the settling of a call made by a user's action
UserActionSettle(r, o) ==
    \/ LoginSettle(r, o)
    \/ SignupSettle(r, o)
    \/ HandleUploadSettle(r, o)

\* data.detail || 'Something went wrong', as the claim words it
DetailOrFallback(o) == IF o.detail # NoDetail THEN o.detail ELSE "Something went wrong"

\* C6: every failed API call made by a user-initiated action (login, signup,
\* upload student ID, ...) ends with an error toast whose text is the
\* server-provided detail when the response carries one and 'Something went
\* wrong' otherwise.  Stated for the calls the server answered.
C6_FailureToast ==
    [][\A r \in reqs, o \in Failures :
          (o.kind = "http" /\ UserActionSettle(r, o)) =>
              toast' = ToastError(DetailOrFallback(o))]_vars

\* C10: a successful login or signup stores the returned token and sets the
\* user; a failed login or signup changes neither the stored token nor the
\* user; logout removes the token and sets the user to null.
C10_Session ==
    [][/\ \A r \in reqs, o \in Outcomes :
             (LoginSettle(r, o) \/ SignupSettle(r, o)) =>
                 IF o = Ok
                 THEN token' = TokenOf(UserById(r.arg)) /\ user' = UserById(r.arg)
                 ELSE token' = token /\ user' = user
       /\ Logout => (token' = NoToken /\ user' = NoUser)]_vars

\* a login has failed: the form is still shown, nobody is signed in
C10_Witness ==
    /\ View.comp = "LoginPage"
    /\ toast.kind = "error"
    /\ ~authPage.loading
    /\ reqs = {}
    /\ user = NoUser
    /\ token = NoToken

(***************************************************************************)
(* Failed calls and polling inside the pages, under SpecPages.             *)
(***************************************************************************)
OpenModals ==
    <<live.showSosConfirm, live.showChat, live.showRatingModal, chat.mounted,
      profileModal.open, sosPage.selectedSOS>>

DisplayedData ==
    <<live.rideData, live.sosTriggered, live.canRate, chat.messages, sosPage.sosEvents,
      profileModal.profile>>

ViewState == <<currentPage, OpenModals, DisplayedData>>

\* what the server sends with a failure is no payload
NoPayload == CHOOSE x \in RideDataValues : TRUE

\* a failed call of a handler the user triggers
FailedActionSettle(r, o) ==
    /\ o \in Failures
    /\ \/ HandleSOSSettle(r, o)
       \/ HandleReachedSafelySettle(r, o)
       \/ HandleSendSettle(r, o)
       \/ HandleActionSettle(r, o)

\* a failed call of a load that leaves the view alone
FailedQuietLoadSettle(r, o) ==
    /\ o \in Failures
    /\ \/ \E status \in SosStatuses : LoadSOSSettle(r, o, status)
       \/ CanRateSettle(r, o, FALSE)
       \/ LoadMessagesSettle(r, o, 1, TRUE)

FailedLoadRideData(r, o) == o \in Failures /\ LoadRideDataSettle(r, o, NoPayload)

FailedLoadProfile(r, o) == o \in Failures /\ LoadProfileSettle(r, o)

PollingComponents == {"LiveRideScreen", "ChatModal", "AdminSOSPage"}

TimersOf(c) == {t \in timers : t.owner = c}

\* the dependency the effect of the timer's component was last run with
DependencyOf(t) ==
    CASE t.owner = "LiveRideScreen" -> live.onBack
      [] t.owner = "ChatModal" -> chat.requestId
      [] t.owner = "AdminSOSPage" -> sosPage.filter
      [] OTHER -> ""

\* C8: once ChatModal, LiveRideScreen or AdminSOSPage is unmounted, or its
\* requestId or filter changes, its interval is cleared: every active
\* interval belongs to the instance now mounted and was set with its current
\* dependency, so no poll is started by a torn-down one; and each component
\* has at most one active interval.
C8_PollingCancelled ==
    /\ \A t \in timers : TimerAlive(t) /\ t.arg = DependencyOf(t)
    /\ \A c \in PollingComponents : Cardinality(TimersOf(c)) <= 1

\* the chat was closed with its first load still in flight, over a live
\* ride screen that goes on polling
C8_Witness ==
    /\ ~chat.mounted
    /\ \E r \in reqs : r.owner = "ChatModal" /\ ~r.alive
    /\ TimersOf("ChatModal") = {}
    /\ live.mounted
    /\ Cardinality(TimersOf("LiveRideScreen")) = 1

(***************************************************************************)
(* The rating prompt and the arrival confirmation of the live ride screen. *)
(***************************************************************************)
\* the calls a step sends from a handler of a mounted component (a call in
\* flight changes only by losing its alive flag)
Sent(h) == {r \in reqs' \ reqs : r.h = h /\ r.alive}

\* C13: a rating submission always carries a star value in 1..5: RatingModal
\* sends POST /api/ratings only when the selected rating is non-zero, with
\* the selected rating, and the only values a star click sets are 1 to 5
\* (the rating is 0 again once the modal is gone).
C13_RatingStars ==
    [][/\ \A r \in Sent("handleSubmit") :
             live.rating # 0 /\ r.body = live.rating /\ r.body \in 1..5
       /\ live'.rating # live.rating =>
             \/ live'.rating \in 1..5 /\ RatingModalShown'
             \/ live'.rating = 0 /\ ~RatingModalShown']_vars

\* five stars were selected and submitted, and the call is in flight
C13_Witness ==
    /\ RatingModalShown /\ live.rating = 5 /\ live.ratingLoading
    /\ \E r \in reqs : r.h = "handleSubmit" /\ r.body = 5 /\ r.alive

\* C14: a rating is created once per completed ride per direction: once the
\* user's rating of the ride request is stored (a successful submission on
\* the live screen), the live screen no longer offers the rate action for it.
C14_RatedNotOffered == server.rated => ~RateOffered

C16_RiderOnlyArrival ==
    [][\A r \in Sent("handleReachedSafely") :
          /\ user.id = Rider.id /\ user.role = "rider"
          /\ live.rideData.loaded /\ live.rideData.status = "ongoing"]_vars

\* the rider's reached-safely call is in flight from the screen of the
\* ongoing ride
C16_Witness ==
    /\ user = Rider /\ isOngoing(live) /\ live.reachingLoading
    /\ \E r \in reqs : r.h = "handleReachedSafely" /\ r.alive

(***************************************************************************)
(* The actions the pages offer.                                            *)
(***************************************************************************)
\* C11: accept and reject requests are issued only for requests in the
\* driver's pending list, a start request only for a request whose cached
\* status is 'accepted', and no mutating call is made for a request whose
\* cached status is completed or rejected.
C11_RequestLifecycle ==
    [][/\ \A r \in Sent("handleRequest") :
             \E id \in requestsPage.pendingRequests, action \in {"accept", "reject"} :
                r.arg = RequestPath(id, action)
       /\ \A r \in Sent("handleStartRide") : requestsPage.acceptedRequests = "accepted"
       /\ requestsPage.acceptedRequests \in {"completed", "rejected"} =>
             Sent("handleRequest") \cup Sent("handleStartRide") = {}]_vars

\* the driver has accepted the request of the pending list; the call is in
\* flight
C11_Witness ==
    /\ requestsPage.pendingRequests = {"r1"} /\ requestsPage.activeTab = "pending"
    /\ \E r \in reqs : r.h = "handleRequest" /\ r.arg = RequestPath("r1", "accept")

\* C12: only a verified user can post or join rides: the request and
\* urgent-request calls and the create-ride call are sent, the urgent modal
\* is open and the post-ride form is filled in only in the session of a user
\* whose verification_status is 'verified'.
C12_VerifiedOnly ==
    [][/\ Sent("requestRide") \cup Sent("PostRidePage.handleSubmit") # {} =>
             user.verification_status = "verified"
       /\ rideCard'.showUrgentModal => user'.verification_status = "verified"
       /\ (postRide' # postRide \/ rideCard'.showUrgentModal # rideCard.showUrgentModal) =>
             user.verification_status = "verified"]_vars

\* a verified rider has sent an urgent request from the urgent modal
C12_Witness ==
    /\ user.role = "rider" /\ user.verification_status = "verified"
    /\ ~rideCard.showUrgentModal
    /\ \E r \in reqs : r.h = "requestRide" /\ r.arg = "is_urgent: true"

\* C17: the create-ride call is sent only if, when online, both source_lat
\* and destination_lat were picked from the map or, when offline, both texts
\* are non-blank, and a recurring ride has a recurrence pattern; its
\* is_offline_mode flag is the negation of the online status at submit time;
\* a map picker is opened, displayed and picked from only while online.
C17_OfflineGating ==
    [][/\ \A r \in Sent("PostRidePage.handleSubmit") :
             /\ IF isOnline
                THEN postRide.source_lat # "null" /\ postRide.destination_lat # "null"
                ELSE postRide.source \notin {"", " "}
                     /\ postRide.destination \notin {"", " "}
             /\ postRide.is_recurring => postRide.recurrence_pattern # ""
             /\ r.arg = IF isOnline THEN "is_offline_mode: false"
                        ELSE "is_offline_mode: true"
       /\ \/ postRide'.source_lat \notin {"null", postRide.source_lat}
          \/ postRide'.destination_lat \notin {"null", postRide.destination_lat}
          \/ postRide'.picker \notin {"none", postRide.picker}
          => isOnline /\ isOnline'
       /\ PickerShown' => isOnline']_vars

\* offline, with both texts typed and no coordinates, the ride has been
\* submitted with the offline flag
C17_Witness ==
    /\ ~isOnline /\ postRide.loading
    /\ postRide.source_lat = "null" /\ postRide.destination_lat = "null"
    /\ \E r \in reqs : r.h = "PostRidePage.handleSubmit" /\ r.arg = "is_offline_mode: true"

\* C18: 'Mark as Reviewed' is offered only for an SOS with status active,
\* 'Resolve' only for status active or reviewed, no action for a resolved
\* SOS, and 'Handle' only for a report with status pending: the modal of an
\* action opens only from a record listed with such a status.
C18_AdminActionsOffered ==
    [][/\ (sosPage'.selectedSOS /\ ~sosPage.selectedSOS) =>
             \/ sosPage'.actionType = "review" /\ sosPage.status = "active"
             \/ sosPage'.actionType = "resolve"
                /\ sosPage.status \in {"active", "reviewed"}
       /\ (reportsPage'.selectedReport /\ ~reportsPage.selectedReport) =>
             reportsPage.reports = "pending"]_vars

\* the Resolve modal is open on a reviewed SOS
C18_Witness ==
    /\ sosPage.selectedSOS /\ sosPage.actionType = "resolve"
    /\ sosPage.status = "reviewed"

\* C19: the driver dashboard issues the complete and delete requests only
\* for a ride whose cached status is 'active', none for a completed ride,
\* and it makes no other call that changes a ride.
C19_RideForwardOnly ==
    [][/\ \A r \in Sent("completeRide") \cup Sent("deleteRide") :
             driverDash.rides = "active" /\ r.arg = "active"
       /\ \A r \in reqs' \ reqs :
             r.owner = "DriverDashboard" =>
                r.h \in {"loadRides", "completeRide", "deleteRide"}]_vars

\* the driver has pressed Complete on an active ride
C19_Witness ==
    /\ driverDash.rides = "active"
    /\ \E r \in reqs : r.h = "completeRide" /\ r.arg = "active"

\* C20: each entry of pinInput is a string of at most 4 digits; the
\* start-ride call is sent only with a PIN of exactly 4 digits, the one
\* entered; handleStartRide with a missing or shorter PIN gives the error
\* toast and sends nothing; a successful start clears the PIN entry of the
\* request, a failed one keeps it.
C20_PinVerifiedStart ==
    [][/\ \A id \in AcceptedIds :
             /\ requestsPage.pinInput[id] \in PinStrings
             /\ requestsPage'.pinInput[id] \in PinStrings
       /\ \A r \in Sent("handleStartRide") :
             \E id \in AcceptedIds, pin \in PinStrings :
                /\ Len(pin) = 4 /\ pin = requestsPage.pinInput[id]
                /\ r.arg = StartCall(id, pin)
       /\ \A id \in AcceptedIds, pin \in PinStrings :
             Len(pin) # 4 =>
                LET page == [requestsPage EXCEPT !.pinInput[id] = pin]
                    res == handleStartRide(page, id)
                IN  /\ res.toast = ToastError("Please enter a valid 4-digit PIN")
                    /\ res.sent = {} /\ res.page = page
       /\ \A r \in reqs, o \in Outcomes, id \in AcceptedIds :
             HandleStartRideSettle(r, o, id) =>
                IF o = Ok THEN requestsPage'.pinInput[id] = ""
                ELSE requestsPage'.pinInput = requestsPage.pinInput]_vars

\* the ride was started with the PIN 7777 and the entry is empty again
C20_Witness ==
    /\ toast = ToastSuccess("Ride started successfully!")
    /\ requestsPage.pinInput["r1"] = "" /\ requestsPage.startingRide = "null"
    /\ \E r \in reqs : r.h = "loadRequests"

\* ---------------------------------------------------------------------
\* Offline badge, late completions after logout or navigation
\* ---------------------------------------------------------------------

\* OfflineBadge: null while online, the "Offline Mode" badge otherwise
OfflineBadge(online) == ~online

\* the places that render an OfflineBadge: PageWrapper around a routed page,
\* and the form of PostRidePage (its "Verification Required" screen returns
\* before the badge)
OfflineBadgeRendered ==
    \/ View.wrapped /\ OfflineBadge(isOnline)
    \/ PostRideShown /\ OfflineBadge(isOnline)

\* C21: whenever a user is logged in and the browser is offline, the Offline
\* Mode badge is rendered, for every role and every currentPage, the
\* driver's post-ride page included.
C21_BadgeOnEveryPage ==
    (user # NoUser /\ ~loading /\ ~isOnline) => OfflineBadgeRendered

\* C22: under every interleaving of logout with requests in flight, a
\* non-null user implies a token in local storage: no late completion of
\* refreshUser, of the startup /api/auth/me call or of a profile update sets
\* the user again after logout.
C22_UserHasToken == user # NoUser => token # NoToken

\* C23: once the user has navigated away from the live ride screen, no
\* completion, success or failure, of a loadRideData request that was still
\* in flight changes currentPage.
C23_LateLoadKeepsPage ==
    [][\A r \in reqs, o \in Outcomes, rd \in RideDataValues :
          (View.comp # "LiveRideScreen" /\ LoadRideDataSettle(r, o, rd))
             => currentPage' = currentPage]_vars

\* C24: after a successful handleSOS the live ride screen keeps showing
\* "SOS Alert Already Sent" for as long as the server reports an active SOS:
\* no poll answer resets sosTriggered while the screen stays displayed.
C24_SosStaysTriggered ==
    [][(LiveShown /\ live.sosTriggered /\ server.sos /\ LiveShown' /\ server'.sos)
          => live'.sosTriggered]_vars

\* C25: the SOS is posted whether or not a location was obtained, with
\* latitude and longitude null when it was not; the POST is issued only from
\* the confirmation modal; a failed POST leaves sosTriggered and the open
\* modal as they are and ends the sending state.
C25_SosWithoutLocation ==
    [][/\ \A r \in Sent("handleSOS") :
             /\ LiveShown /\ live.showSosConfirm /\ ~live.sosLoading
             /\ r.arg \in {"coords", "null"}
       /\ (LiveShown /\ live.showSosConfirm /\ ~live.sosLoading /\ reqs = {})
             => ENABLED HandleSOS(FALSE)
       /\ \A located \in BOOLEAN :
             HandleSOS(located) =>
                \E r \in Sent("handleSOS") :
                   r.arg = IF located THEN "coords" ELSE "null"
       /\ \A r \in reqs, o \in Failures :
             (HandleSOSSettle(r, o) /\ r.alive) =>
                /\ live'.sosTriggered = live.sosTriggered
                /\ live'.showSosConfirm = live.showSosConfirm
                /\ ~live'.sosLoading
                /\ toast' = ToastError(api(o).message)]_vars

\* an SOS posted without a location is on its way, the modal still open
C25_Witness ==
    /\ LiveShown /\ live.showSosConfirm /\ live.sosLoading /\ ~live.sosTriggered
    /\ \E r \in reqs : r.h = "handleSOS" /\ r.arg = "null" /\ r.alive

\* C26: after a change of the SOS status filter, an answer to a call issued
\* under a previous filter never overwrites the list of the selected filter:
\* a displayed list that belongs to the selected filter is replaced only by
\* another list of that filter.
C26_NewestFilterWins ==
    [][\A r \in reqs, status \in SosStatuses :
          (LoadSOSSettle(r, Ok, status) /\ sosPage.sosEvents = sosPage.filter)
             => sosPage'.sosEvents = sosPage'.filter]_vars

\* C27: immediately after a successful login or signup the page rendered is
\* the dashboard of the user's role, whatever pages were visited in an
\* earlier session of the same tab before logout.
C27_LoginShowsDashboard ==
    [][\A r \in reqs :
          ((LoginSettle(r, Ok) \/ SignupSettle(r, Ok)) /\ user' # NoUser)
             => AppContent(user', loading', authMode', currentPage').comp
                   = DashboardOf(user')]_vars

\* C28: startup always leaves the loading state.  With no token stored no
\* request is made and loading becomes false at once; with a token, loading
\* stays true until /api/auth/me settles and becomes false then, with the
\* user set on success, and with the token removed, the user null and the
\* login page shown on failure.  Loading never comes back.
C28_StartupLeavesLoading ==
    /\ <>(~loading)
    /\ [][/\ loading' => loading
          /\ AuthProviderMount =>
                IF token = NoToken
                THEN ~loading' /\ reqs' = {} /\ user' = NoUser
                ELSE /\ loading' /\ token' = token
                     /\ \E r \in reqs' : r.h = "startupMe" /\ r.tok = token
          /\ \A r \in reqs, o \in Outcomes :
                StartupMeSettle(r, o) =>
                   /\ loading /\ ~loading'
                   /\ IF o = Ok
                      THEN user' = UserOfToken(r.tok) /\ token' = token
                      ELSE /\ token' = NoToken /\ user' = NoUser
                           /\ AppContent(user', loading', authMode', currentPage').comp
                                 = "LoginPage"]_vars

\* the stored token was accepted: a user with no login in this tab (no toast
\* yet), on the dashboard
C28_Witness ==
    /\ booted /\ ~loading /\ user # NoUser /\ token = TokenOf(user)
    /\ toast = NoToast /\ View.comp = DashboardOf(user)

\* C29: handleSend posts only when the trimmed text is non-empty, no send is
\* in progress and chat is enabled; the posted text is the trimmed input; the
\* input is emptied by the handler only after a successful post and is left
\* as it is after a failed one; sending is false once the request settled.
C29_ChatSend ==
    [][/\ \A r \in Sent("handleSend") :
             /\ trim(chat.newMessage) # "" /\ ~chat.sending /\ chat.chatEnabled
             /\ r.arg = SendCall(chat.requestId, trim(chat.newMessage))
             /\ r.arg # SendCall(chat.requestId, chat.newMessage)
             /\ chat'.sending
       /\ \A r \in reqs, o \in Outcomes :
             (HandleSendSettle(r, o) /\ r.alive) =>
                /\ ~chat'.sending
                /\ chat'.newMessage = IF o = Ok THEN "" ELSE chat.newMessage
       /\ (chat.mounted /\ chat'.mounted /\ chat'.newMessage # chat.newMessage) =>
             \/ \E text \in Texts : SetNewMessage(text)
             \/ \E r \in reqs : HandleSendSettle(r, Ok)]_vars

\* a failed send: the error toast, the text still in the input
C29_Witness ==
    /\ chat.mounted /\ ~chat.sending /\ chat.newMessage = " hi "
    /\ toast = ToastError("Failed to fetch")
    /\ ~\E r \in reqs : r.h = "handleSend"

\* C30: while a start-ride request for a ride request is in flight, the
\* Start Ride button of that ride request stays disabled, also when the
\* driver starts another ride request in the meantime.
C30_StartStaysDisabled ==
    \A id \in AcceptedIds :
       (/\ StartShown
        /\ \E r \in reqs, pin \in PinStrings :
              r.h = "handleStartRide" /\ r.alive /\ r.arg = StartCall(id, pin))
          => StartDisabled(requestsPage, id)

====
